---------------------------- MODULE Spec2Model ----------------------------
(***************************************************************************)
(* Model of the AI Factory Sandbox simulation engine (hooks/useGameEngine  *)
(* .ts, the connection-based engine at lines 1-520), of the combination    *)
(* resolver it calls (services/gpt: src/unnamed/part_000) and of the       *)
(* caching resolver AIService (src/unnamed/part_001).                      *)
(*                                                                         *)
(* Conventions.                                                            *)
(*  - Times are integer milliseconds, as Date.now() returns them.          *)
(*  - The engine's money is whole dollars.  AIService's amounts, which go  *)
(*    down to 0.01, are counted in cents.                                  *)
(*  - An item's progress (a float in [0,1] in the source) is a fixed-point *)
(*    number of ProgressScale-ths; a quotient is rounded down.             *)
(*  - A JavaScript value that is absent (undefined) is modelled by the     *)
(*    falsy value of its type ("" or 0): the source only ever tests these  *)
(*    fields with ! and ||, which cannot tell the two apart.               *)
(*  - Identities (uuidv4()) are pairs <<kind, n>> with n drawn from a      *)
(*    per-kind counter, so two identities are never equal.                 *)
(***************************************************************************)
EXTENDS Integers, Sequences, FiniteSets, TLC

(***************************************************************************)
(* Bounds of the model.                                                    *)
(***************************************************************************)
MaxTime == 12000
MaxItems == 6
MaxOddSteps == 1

(***************************************************************************)
(* Program constants.                                                      *)
(***************************************************************************)
CONNECTION_SPEED == 80
TARGET_FPS == 60
SPAWN_INTERVAL == 3000
PROCESS_INTERVAL == 2000
CASH_UPDATE_INTERVAL == 1000
CASH_WINDOW == 60000
SPAWNER_WIDTH == 80
SPAWNER_HEIGHT == 60
MODIFIER_WIDTH == 100
MODIFIER_HEIGHT == 80
SPAWN_CASH == 15
ProgressScale == 1000

SELL_ZONE == [x |-> 800, y |-> 300, width |-> 120, height |-> 200]

PLACEHOLDER_KEY == "your_openai_api_key_here"

\* ELEMENTAL_INGREDIENTS and SIMPLE_MODIFIERS: name -> emoji (a tag stands
\* for the glyph).
ELEMENTAL_INGREDIENTS ==
    << [name |-> "Water", emoji |-> "droplet"],
       [name |-> "Fire",  emoji |-> "fire"],
       [name |-> "Earth", emoji |-> "globe"],
       [name |-> "Air",   emoji |-> "dash"] >>

SIMPLE_MODIFIERS ==
    << [name |-> "Heat",     emoji |-> "fire"],
       [name |-> "Cool",     emoji |-> "snowflake"],
       [name |-> "Mix",      emoji |-> "cyclone"],
       [name |-> "Compress", emoji |-> "clamp"],
       [name |-> "Purify",   emoji |-> "sparkles"] >>

(***************************************************************************)
(* Array helpers (Array.prototype.find / includes / filter / map).         *)
(***************************************************************************)
Range(s) == { s[i] : i \in DOMAIN s }

Includes(s, e) == \E i \in DOMAIN s : s[i] = e

\* index of the first element satisfying P, 0 when there is none
FindIndex(s, P(_)) ==
    IF \E i \in DOMAIN s : P(s[i])
    THEN CHOOSE i \in DOMAIN s : P(s[i]) /\ \A j \in 1..(i - 1) : ~P(s[j])
    ELSE 0

Max(a, b) == IF a >= b THEN a ELSE b
Min(a, b) == IF a <= b THEN a ELSE b

\* floor(sqrt(n)) by bisection on [lo, hi]
RECURSIVE SqrtBetween(_, _, _)
SqrtBetween(n, lo, hi) ==
    IF lo >= hi THEN lo
    ELSE LET mid == (lo + hi + 1) \div 2
         IN  IF mid * mid <= n THEN SqrtBetween(n, mid, hi)
             ELSE SqrtBetween(n, lo, mid - 1)

ISqrt(n) == SqrtBetween(n, 0, 2048)

RECURSIVE GCD(_, _)
GCD(a, b) == IF b = 0 THEN a ELSE GCD(b, a % b)

\* floor(a * b / c) for b, c > 0, without forming the product a * b
MulDiv(a, b, c) ==
    LET g == GCD(b, c)
        bb == b \div g
        cc == c \div g
    IN  ((a \div cc) * bb) + (((a % cc) * bb) \div cc)

(***************************************************************************)
(* services/gpt (part_000): the combination resolver the engine calls.     *)
(***************************************************************************)
\* Math.random() draws, in thousandths
RandomDraws == {0, 999}

\* the base is forgotten
RandomCashNoBase(u, range, base) == u * (range \div 1000)

\* Math.floor(Math.random() * range) + base; every range of the table is a
\* multiple of 1000, so the product is taken after the division
RandomCash(u, range, base) == (u * (range \div 1000)) + base

fallbacks(u) ==
    << [name |-> "Mysterious Goo", emoji |-> "test-tube",
        cashPerItem |-> RandomCash(u, 1000, 100), type |-> "Ingredient"],
       [name |-> "Chaos Crystal", emoji |-> "gem",
        cashPerItem |-> RandomCash(u, 10000, 1000), type |-> "Ingredient"],
       [name |-> "Quantum Soup", emoji |-> "stew",
        cashPerItem |-> RandomCash(u, 100000, 10000), type |-> "Ingredient"],
       [name |-> "Hyperdimensional Widget", emoji |-> "wrench",
        cashPerItem |-> RandomCash(u, 1000000, 100000), type |-> "Modifier"],
       [name |-> "Cosmic Blender", emoji |-> "galaxy",
        cashPerItem |-> RandomCash(u, 10000000, 1000000), type |-> "Modifier"] >>

\* a draw of generateFallbackResponse: the table index and the cash draw
FallbackDraws == [index : 1..5, u : RandomDraws]

generateFallbackResponse(draw) == fallbacks(draw.u)[draw.index]

\* What the external call can come back with: a network error, content that
\* JSON.parse rejects, or a parsed object (absent fields are "" / 0).
\* the number JSON.parse yields for a literal beyond the double range, such
\* as 1e999: the JavaScript value Infinity, modelled by the largest integer
Infinity == 2147483647

NetworkError == [kind |-> "error", name |-> "", emoji |-> "",
                 cashPerItem |-> 0, type |-> ""]
Unparseable == [kind |-> "unparseable", name |-> "", emoji |-> "",
                cashPerItem |-> 0, type |-> ""]
Parsed(n, e, c, t) == [kind |-> "object", name |-> n, emoji |-> e,
                       cashPerItem |-> c, type |-> t]

Outcomes ==
    { NetworkError, Unparseable,
      Parsed("Steam", "cloud", 50, "Ingredient"),
      Parsed("", "cloud", 50, "Ingredient"),
      Parsed("Steam", "", 50, "Ingredient"),
      Parsed("Steam", "cloud", 0, "Ingredient"),
      Parsed("Steam", "cloud", 50, ""),
      Parsed("Steam", "cloud", 0 - 5, "Ingredient"),
      Parsed("Steam", "cloud", Infinity, "Ingredient") }

Template(r) == [name |-> r.name, emoji |-> r.emoji,
                cashPerItem |-> r.cashPerItem, type |-> r.type]

HasCredential(key) == ~(key = "" \/ key = PLACEHOLDER_KEY)

\* the validation of lines 65-68
ValidResponse(r) ==
    ~(r.name = "" \/ r.emoji = "" \/ r.cashPerItem = 0 \/ r.type = "")

\* combineItems: the record returned and whether axios.post was called
combineItems(key, outcome, draw) ==
    IF ~HasCredential(key)
    THEN [result |-> generateFallbackResponse(draw), external |-> FALSE]
    ELSE IF outcome.kind = "object" /\ ValidResponse(outcome)
         THEN [result |-> Template(outcome), external |-> TRUE]
         ELSE [result |-> generateFallbackResponse(draw), external |-> TRUE]

\* String order of Array.prototype.sort() (UTF-16 code units) on the names
\* the model uses, least first.
NameOrder ==
    << "Air", "Chaos Crystal", "Cosmic Blender", "Earth", "Fire", "Fire+Water",
       "Hyperdimensional Widget", "Mysterious Goo", "Quantum Soup", "Steam",
       "Water" >>

NameRank(n) == CHOOSE i \in DOMAIN NameOrder : NameOrder[i] = n

\* insert n into the sorted sequence s
RECURSIVE InsertSorted(_, _)
InsertSorted(n, s) ==
    IF s = << >> THEN << n >>
    ELSE IF NameRank(n) <= NameRank(Head(s)) THEN << n >> \o s
         ELSE << Head(s) >> \o InsertSorted(n, Tail(s))

\* the sort that leaves the list as it is
Unsorted(s) == s

\* [...ingredients].sort()
RECURSIVE SortNames(_)
SortNames(s) ==
    IF s = << >> THEN << >> ELSE InsertSorted(Head(s), SortNames(Tail(s)))

\* Array.prototype.join
RECURSIVE Join(_, _)
Join(s, sep) ==
    IF s = << >> THEN ""
    ELSE IF Len(s) = 1 THEN s[1]
         ELSE s[1] \o sep \o Join(Tail(s), sep)

getCachedCombo(ingredients, modifier) ==
    Join(SortNames(ingredients), "+") \o "+" \o modifier

(***************************************************************************)
(* State of the engine (GameState, hooks/useGameEngine.ts) and of its      *)
(* environment.                                                            *)
(***************************************************************************)
VARIABLES
    clock,              \* Date.now()
    oddSteps,           \* number of short or long advances of the clock so far
    apiKey,             \* import.meta.env.VITE_OPENAI_API_KEY
    lastFrameTime,      \* lastFrameTime.current
    lastUpdateTime,     \* lastUpdateTime of the game-loop effect
    frameDue,           \* the requested animation frame is due to run
    animationRef,       \* a call of gameLoop is requested for the next frame
    spawners, modifiers, connections, items,
    totalCash, cashPerMinute, discoveredCombos, lastCashUpdate, cashHistory,
    draggedConnection,  \* << >> when undefined, else << drag >>
    pending,            \* processCombination calls awaiting combineItems
    persisted,          \* localStorage['ai-factory-discovered-combos']
    nextId,             \* kind -> number of identities handed out
    extCalls,           \* cache key -> number of axios.post calls issued
    sold,               \* the items credited so far, as [id, cash]
    lastEmit,           \* spawner id -> its emissions: how many, the last at
    gptCall,            \* << >>, or the last call of services/gpt combineItems
    aiCombos,           \* AIService.discoveredCombos
    aiPending,          \* AIService.combineItems calls awaiting their record
    aiReturned,         \* << >>, or the last return of AIService.combineItems
    keyCall             \* << >>, or the last call of the cache-key functions

vars == << clock, oddSteps, apiKey, lastFrameTime, lastUpdateTime, frameDue,
           animationRef,
           spawners, modifiers, connections, items, totalCash, cashPerMinute,
           discoveredCombos, lastCashUpdate, cashHistory, draggedConnection,
           pending, persisted, nextId, extCalls, sold, lastEmit, gptCall,
           aiCombos, aiPending, aiReturned, keyCall >>

\* the state of the resolvers when they are driven on their own
resolverVars == << gptCall, aiCombos, aiPending, aiReturned, keyCall >>

NeverEmitted == [at |-> -1, count |-> 0]

SellId == << "sell", 0 >>
NoId == << "none", 0 >>

\* the steps by which the environment advances the clock: the regular one,
\* one shorter than a frame of 60 per second, and a pause of two spawn
\* intervals
Step == 1000
ShortStep == 10
PauseStep == 6000

Point(px, py) == [x |-> px, y |-> py]

createConnection(id, fromId, fromType, toId, toType) ==
    [id |-> id, fromId |-> fromId, toId |-> toId, fromType |-> fromType,
     toType |-> toType, points |-> << >>, speed |-> CONNECTION_SPEED]

NewSpawner(id, px, py, itemType, now) ==
    [id |-> id, x |-> px, y |-> py, width |-> SPAWNER_WIDTH,
     height |-> SPAWNER_HEIGHT, itemType |-> itemType, lastSpawn |-> now,
     spawnInterval |-> SPAWN_INTERVAL]

NewModifier(id, px, py, data, now) ==
    [id |-> id, x |-> px, y |-> py, width |-> MODIFIER_WIDTH,
     height |-> MODIFIER_HEIGHT, name |-> data.name, emoji |-> data.emoji,
     inputs |-> << >>, lastProcess |-> now,
     processInterval |-> PROCESS_INTERVAL]

\* a router that places every endpoint at the origin
OriginPoints(conn, sps, mods) == << Point(0, 0), Point(0, 0) >>

\* calculateConnectionPoints: [startPoint, endPoint]
calculateConnectionPoints(conn, sps, mods) ==
    LET si == FindIndex(sps, LAMBDA s : s.id = conn.fromId)
        mi == FindIndex(mods, LAMBDA m : m.id = conn.fromId)
        ti == FindIndex(mods, LAMBDA m : m.id = conn.toId)
        startPoint ==
            IF conn.fromType = "spawner"
            THEN IF si # 0
                 THEN Point(sps[si].x + sps[si].width,
                            sps[si].y + (sps[si].height \div 2))
                 ELSE Point(0, 0)
            ELSE IF mi # 0
                 THEN Point(mods[mi].x + mods[mi].width,
                            mods[mi].y + (mods[mi].height \div 2))
                 ELSE Point(0, 0)
        endPoint ==
            IF conn.toType = "sell"
            THEN Point(SELL_ZONE.x + (SELL_ZONE.width \div 2),
                       SELL_ZONE.y + (SELL_ZONE.height \div 2))
            ELSE IF ti # 0
                 THEN Point(mods[ti].x, mods[ti].y + (mods[ti].height \div 2))
                 ELSE Point(0, 0)
    IN  << startPoint, endPoint >>

\* a refresh that drops the connections with an endpoint at the origin
RefreshRouted(conns, sps, mods) ==
    LET routed == [i \in DOMAIN conns |->
                      [conns[i] EXCEPT
                          !.points = calculateConnectionPoints(conns[i], sps, mods)]]
    IN  SelectSeq(routed, LAMBDA c : Point(0, 0) \notin { c.points[1], c.points[2] })

\* lines 235-252: every connection with its endpoint pair recomputed
RefreshConnections(conns, sps, mods) ==
    [i \in DOMAIN conns |->
        [conns[i] EXCEPT !.points = calculateConnectionPoints(conns[i], sps, mods)]]

\* the first connection of the type, whatever entity it leaves
AnyConnectionOfType(conns, fromId, fromType) ==
    FindIndex(conns, LAMBDA c : c.fromType = fromType)

\* the last connection leaving the entity (fromId, fromType): 0 when none
LastConnectionFrom(conns, fromId, fromType) ==
    LET from == { i \in DOMAIN conns :
                     conns[i].fromId = fromId /\ conns[i].fromType = fromType }
    IN  IF from = {} THEN 0 ELSE CHOOSE i \in from : \A k \in from : k <= i

\* the first connection leaving the entity (fromId, fromType): 0 when none
OutputConnection(conns, fromId, fromType) ==
    FindIndex(conns, LAMBDA c : c.fromId = fromId /\ c.fromType = fromType)

IngredientIndex(itemType) ==
    FindIndex(ELEMENTAL_INGREDIENTS, LAMBDA ing : ing.name = itemType)

NewItem(id, name, emoji, cash, type, conn) ==
    [id |-> id, name |-> name, emoji |-> emoji, cashPerItem |-> cash,
     type |-> type, x |-> conn.points[1].x, y |-> conn.points[1].y,
     progress |-> 0, connectionId |-> conn.id]

(***************************************************************************)
(* gameLoop (lines 214-382), phase by phase.  Each phase maps the working  *)
(* record st (newState and the loop's locals) to its value after the       *)
(* phase.                                                                  *)
(***************************************************************************)
ItemId(n) == << "item", n >>

\* a spawner that never emits
SpawnNever(spawner, now) == FALSE

\* a spawner that does not wait for its interval
SpawnAlways(spawner, now) == TRUE

\* line 257: the spawner's interval has elapsed
SpawnReady(spawner, now) == now - spawner.lastSpawn >= spawner.spawnInterval

\* a spawn loop that restarts the interval of a spawner that is due but
\* cannot emit
SpawnOrRestart(st, i, now) ==
    LET spawner == st.spawners[i]
        ing == IngredientIndex(spawner.itemType)
        oc == OutputConnection(st.connections, spawner.id, "spawner")
    IN  IF SpawnReady(spawner, now)
        THEN IF ing # 0 /\ oc # 0 /\ Len(st.connections[oc].points) > 0
             THEN [st EXCEPT
                     !.items = Append(@, NewItem(ItemId(st.nextItem),
                                                 ELEMENTAL_INGREDIENTS[ing].name,
                                                 ELEMENTAL_INGREDIENTS[ing].emoji,
                                                 SPAWN_CASH, "Ingredient",
                                                 st.connections[oc])),
                     !.nextItem = @ + 1,
                     !.spawners[i].lastSpawn = now,
                     !.lastEmit = [id \in DOMAIN @ |->
                                      IF id = spawner.id
                                      THEN [at |-> now, count |-> @[id].count + 1]
                                      ELSE @[id]]]
             ELSE [st EXCEPT !.spawners[i].lastSpawn = now]
        ELSE st

\* lines 254-282: the body of the spawn loop for spawner i
SpawnOne(st, i, now) ==
    LET spawner == st.spawners[i]
        ing == IngredientIndex(spawner.itemType)
        oc == OutputConnection(st.connections, spawner.id, "spawner")
    IN  IF SpawnReady(spawner, now)
           /\ ing # 0 /\ oc # 0 /\ Len(st.connections[oc].points) > 0
        THEN [st EXCEPT
                !.items = Append(@, NewItem(ItemId(st.nextItem),
                                            ELEMENTAL_INGREDIENTS[ing].name,
                                            ELEMENTAL_INGREDIENTS[ing].emoji,
                                            SPAWN_CASH, "Ingredient",
                                            st.connections[oc])),
                !.nextItem = @ + 1,
                !.spawners[i].lastSpawn = now,
                !.lastEmit = [id \in DOMAIN @ |->
                                 IF id = spawner.id
                                 THEN [at |-> now, count |-> @[id].count + 1]
                                 ELSE @[id]]]
        ELSE st

RECURSIVE SpawnLoop(_, _, _)
SpawnLoop(st, i, now) ==
    IF i > Len(st.spawners) THEN st
    ELSE SpawnLoop(SpawnOne(st, i, now), i + 1, now)

\* Math.sqrt of the squared distance between the endpoints, rounded down
Distance(conn) ==
    ISqrt((conn.points[2].x - conn.points[1].x) * (conn.points[2].x - conn.points[1].x)
          + (conn.points[2].y - conn.points[1].y) * (conn.points[2].y - conn.points[1].y))

\* the increment is subtracted
ProgressBackwards(progress, deltaTime, distance) ==
    IF distance = 0 THEN ProgressScale
    ELSE progress
         - ((CONNECTION_SPEED * deltaTime * ProgressScale) \div (1000 * distance))

\* a path of no length moves nothing
ProgressUnlessZeroLength(progress, deltaTime, distance) ==
    IF distance = 0 THEN progress
    ELSE Min(progress
             + MulDiv(CONNECTION_SPEED * deltaTime, ProgressScale, 1000 * distance),
             ProgressScale)

\* lines 296-297: Math.min(progress + CONNECTION_SPEED * deltaTime / 1000 /
\* distance, 1); a zero distance makes the increment Infinity
NewProgress(progress, deltaTime, distance) ==
    IF distance = 0 THEN ProgressScale
    ELSE Min(progress
             + MulDiv(CONNECTION_SPEED * deltaTime, ProgressScale, 1000 * distance),
             ProgressScale)

\* lines 315-331: the item at its new place along the connection
MovedItem(item, conn, newProgress) ==
    LET startPoint == conn.points[1]
        endPoint == conn.points[2]
        newX == startPoint.x + (((endPoint.x - startPoint.x) * newProgress) \div ProgressScale)
        newY == startPoint.y + (((endPoint.y - startPoint.y) * newProgress) \div ProgressScale)
    IN  [item EXCEPT !.x = newX, !.y = newY, !.progress = newProgress]

\* an arrival that takes the item out of the item collection at once
ArriveAndLeave(st, item, conn) ==
    IF conn.toType = "sell"
    THEN [st EXCEPT
            !.totalCash = @ + item.cashPerItem,
            !.itemsToRemove = @ \cup {item.id},
            !.sold = @ \cup {[id |-> item.id, cash |-> item.cashPerItem]}]
    ELSE LET mi == FindIndex(st.modifiers, LAMBDA m : m.id = conn.toId)
         IN  IF mi # 0 /\ ~Includes(st.modifiers[mi].inputs, item.id)
             THEN [st EXCEPT !.modifiers[mi].inputs = Append(@, item.id),
                             !.itemsToRemove = @ \cup {item.id}]
             ELSE st

\* an arrival that adds the item to the pending inputs whether or not it
\* is there already
ArriveAgain(st, item, conn) ==
    IF conn.toType = "sell"
    THEN [st EXCEPT
            !.totalCash = @ + item.cashPerItem,
            !.itemsToRemove = @ \cup {item.id},
            !.sold = @ \cup {[id |-> item.id, cash |-> item.cashPerItem]}]
    ELSE LET mi == FindIndex(st.modifiers, LAMBDA m : m.id = conn.toId)
         IN  IF mi # 0
             THEN [st EXCEPT !.modifiers[mi].inputs = Append(@, item.id)]
             ELSE st

\* lines 299-313: the item reached the end of its connection
Arrive(st, item, conn) ==
    IF conn.toType = "sell"
    THEN [st EXCEPT
            !.totalCash = @ + item.cashPerItem,
            !.itemsToRemove = @ \cup {item.id},
            !.sold = @ \cup {[id |-> item.id, cash |-> item.cashPerItem]}]
    ELSE LET mi == FindIndex(st.modifiers, LAMBDA m : m.id = conn.toId)
         IN  IF mi # 0 /\ ~Includes(st.modifiers[mi].inputs, item.id)
             THEN [st EXCEPT !.modifiers[mi].inputs = Append(@, item.id)]
             ELSE st

\* lines 286-335: the body of the move loop for item i
MoveOne(st, i, deltaTime) ==
    LET item == st.items[i]
        ci == FindIndex(st.connections, LAMBDA c : c.id = item.connectionId)
        conn == st.connections[ci]
        newProgress == NewProgress(item.progress, deltaTime, Distance(conn))
    IN  IF item.connectionId # NoId /\ ci # 0 /\ Len(conn.points) >= 2
        THEN IF newProgress >= ProgressScale
             THEN Arrive(st, item, conn)
             ELSE [st EXCEPT !.items[i] = MovedItem(item, conn, newProgress)]
        ELSE st

RECURSIVE MoveLoop(_, _, _)
MoveLoop(st, i, deltaTime) ==
    IF i > Len(st.items) THEN st
    ELSE MoveLoop(MoveOne(st, i, deltaTime), i + 1, deltaTime)

\* the items that reached the sell zone are left in the collection
KeepSold(st) == st

\* lines 337-341: drop the items that reached the sell zone
RemoveSold(st) ==
    IF st.itemsToRemove # {}
    THEN [st EXCEPT
            !.items = SelectSeq(@, LAMBDA it : it.id \notin st.itemsToRemove),
            !.replaced = TRUE]
    ELSE st

\* obj[key] = value on a Record<string, ...>
Put(obj, key, value) ==
    [k \in DOMAIN obj \cup {key} |-> IF k = key THEN value ELSE obj[k]]

\* lines 64-84: the output item of a combination, pushed onto the array its
\* gameState argument holds; conn is << >> when the modifier has no outbound
\* connection
OutputItem(id, result, conn) ==
    NewItem(id, result.name, result.emoji, result.cashPerItem, result.type, conn)

\* lines 52-62, up to the await: the part of processCombination that runs
\* inside the tick.  On a cache hit the whole function runs here.  On a miss
\* combineItems is called (it posts the request when a credential is
\* configured) and the rest waits for its promise: the call is recorded in
\* st.requests with the output connection that gameState.connections holds
\* (that array is never written again after the tick).
\* the cache is never consulted
NeverCached(combos, cacheKey) == FALSE

\* lines 56-58: result = gameState.discoveredCombos[cacheKey] is there
Cached(combos, cacheKey) == cacheKey \in DOMAIN combos

processCombination(st, inputItems, modifier) ==
    LET ingredientNames == [k \in DOMAIN inputItems |-> inputItems[k].name]
        cacheKey == getCachedCombo(ingredientNames, modifier.name)
        oc == OutputConnection(st.connections, modifier.id, "modifier")
        outputConnection == IF oc = 0 THEN << >> ELSE << st.connections[oc] >>
    IN  IF Cached(st.discoveredCombos, cacheKey)
        THEN IF oc # 0
             THEN [st EXCEPT
                     !.items = Append(@, OutputItem(ItemId(st.nextItem),
                                                    st.discoveredCombos[cacheKey],
                                                    st.connections[oc])),
                     !.nextItem = @ + 1]
             ELSE st
        ELSE [st EXCEPT
                !.requests = Append(@, [cacheKey |-> cacheKey,
                                        ingredients |-> ingredientNames,
                                        modifier |-> modifier.name,
                                        modifierId |-> modifier.id,
                                        outputConnection |-> outputConnection,
                                        stale |-> FALSE]),
                !.extCalls = IF HasCredential(apiKey)
                             THEN Put(@, cacheKey,
                                      IF cacheKey \in DOMAIN @ THEN @[cacheKey] + 1 ELSE 1)
                             ELSE @]

\* lines 347-349: the pending ids that still name an item, as items
InputItems(inputs, its) ==
    LET found == SelectSeq(inputs, LAMBDA id : \E k \in DOMAIN its : its[k].id = id)
    IN  [k \in DOMAIN found |->
            its[FindIndex(its, LAMBDA it : it.id = found[k])]]

\* a processing cycle that leaves the inputs and the items where they are
ProcessKeepingInputs(st, i, now) ==
    LET modifier == st.modifiers[i]
        inputItems == InputItems(modifier.inputs, st.items)
    IN  IF Len(modifier.inputs) > 0
           /\ now - modifier.lastProcess >= modifier.processInterval
           /\ Len(inputItems) > 0
        THEN LET st1 == processCombination(st, inputItems, modifier)
             IN  [st1 EXCEPT !.modifiers[i] = [modifier EXCEPT !.lastProcess = now]]
        ELSE st

\* a processing cycle that does not wait for the interval to pass
ProcessAtOnce(st, i, now) ==
    LET modifier == st.modifiers[i]
        inputItems == InputItems(modifier.inputs, st.items)
    IN  IF Len(modifier.inputs) > 0 /\ Len(inputItems) > 0
        THEN LET st1 == processCombination(st, inputItems, modifier)
             IN  [st1 EXCEPT
                    !.items = SelectSeq(@, LAMBDA it : ~Includes(modifier.inputs, it.id)),
                    !.modifiers[i] = [modifier EXCEPT !.inputs = << >>,
                                                      !.lastProcess = now],
                    !.replaced = TRUE]
        ELSE st

\* a processing cycle whose removal of the inputs also takes the item the
\* cycle has just made
ProcessDroppingOutput(st, i, now) ==
    LET modifier == st.modifiers[i]
        inputItems == InputItems(modifier.inputs, st.items)
    IN  IF Len(modifier.inputs) > 0
           /\ now - modifier.lastProcess >= modifier.processInterval
           /\ Len(inputItems) > 0
        THEN LET st1 == processCombination(st, inputItems, modifier)
             IN  [st1 EXCEPT
                    !.items = SelectSeq(@, LAMBDA it :
                                  /\ ~Includes(modifier.inputs, it.id)
                                  /\ it.id[2] < st.nextItem),
                    !.modifiers[i] = [modifier EXCEPT !.inputs = << >>,
                                                      !.lastProcess = now],
                    !.replaced = TRUE]
        ELSE st

\* lines 344-367: the body of the processing loop for modifier i
ProcessOne(st, i, now) ==
    LET modifier == st.modifiers[i]
        inputItems == InputItems(modifier.inputs, st.items)
    IN  IF Len(modifier.inputs) > 0
           /\ now - modifier.lastProcess >= modifier.processInterval
           /\ Len(inputItems) > 0
        THEN LET st1 == processCombination(st, inputItems, modifier)
             IN  [st1 EXCEPT
                    !.items = SelectSeq(@, LAMBDA it : ~Includes(modifier.inputs, it.id)),
                    !.modifiers[i] = [modifier EXCEPT !.inputs = << >>,
                                                      !.lastProcess = now],
                    !.replaced = TRUE]
        ELSE st

RECURSIVE ProcessLoop(_, _, _)
ProcessLoop(st, i, now) ==
    IF i > Len(st.modifiers) THEN st
    ELSE ProcessLoop(ProcessOne(st, i, now), i + 1, now)
\* the ledger update that reports the cash gained over the window, not
\* scaled to a minute
updateCashGained(st, now) ==
    LET pushed == Append(st.cashHistory, [timestamp |-> now, cash |-> st.totalCash])
        history == SelectSeq(pushed,
                             LAMBDA entry : entry.timestamp > now - CASH_WINDOW)
    IN  [st EXCEPT
            !.cashHistory = history,
            !.cashPerMinute = IF Len(history) > 1
                              THEN history[Len(history)].cash - history[1].cash
                              ELSE @]

\* the ledger update that keeps the sample taken exactly one minute ago
updateCashKeepingMinuteOld(st, now) ==
    LET pushed == Append(st.cashHistory, [timestamp |-> now, cash |-> st.totalCash])
        history == SelectSeq(pushed,
                             LAMBDA entry : entry.timestamp >= now - CASH_WINDOW)
        timeDiff == history[Len(history)].timestamp - history[1].timestamp
        cashDiff == history[Len(history)].cash - history[1].cash
    IN  [st EXCEPT
            !.cashHistory = history,
            !.cashPerMinute = IF Len(history) > 1 /\ timeDiff > 0
                              THEN MulDiv(cashDiff, 60000, timeDiff)
                              ELSE @]

\* the ledger update that reports zero when the window has one sample
updateCashResetting(st, now) ==
    LET pushed == Append(st.cashHistory, [timestamp |-> now, cash |-> st.totalCash])
        history == SelectSeq(pushed,
                             LAMBDA entry : entry.timestamp > now - CASH_WINDOW)
        timeDiff == history[Len(history)].timestamp - history[1].timestamp
        cashDiff == history[Len(history)].cash - history[1].cash
    IN  [st EXCEPT
            !.cashHistory = history,
            !.cashPerMinute = IF Len(history) > 1 /\ timeDiff > 0
                              THEN MulDiv(cashDiff, 60000, timeDiff)
                              ELSE 0]

\* updateCashPerMinute (lines 87-103)
updateCashPerMinute(st, now) ==
    LET pushed == Append(st.cashHistory, [timestamp |-> now, cash |-> st.totalCash])
        oneMinuteAgo == now - CASH_WINDOW
        history == SelectSeq(pushed, LAMBDA entry : entry.timestamp > oneMinuteAgo)
        oldestEntry == history[1]
        latestEntry == history[Len(history)]
        timeDiff == latestEntry.timestamp - oldestEntry.timestamp
        cashDiff == latestEntry.cash - oldestEntry.cash
    IN  [st EXCEPT
            !.cashHistory = history,
            !.cashPerMinute = IF Len(history) > 1 /\ timeDiff > 0
                              THEN MulDiv(cashDiff, 60000, timeDiff)
                              ELSE @]

\* lines 369-374
CashUpdate(st, now) ==
    IF now - st.lastCashUpdate > CASH_UPDATE_INTERVAL
    THEN [updateCashPerMinute(st, now) EXCEPT !.lastCashUpdate = now]
    ELSE st

\* newState = { ...prev } with the locals of the updater
Working ==
    [spawners |-> spawners, modifiers |-> modifiers, connections |-> connections,
     items |-> items, totalCash |-> totalCash, cashPerMinute |-> cashPerMinute,
     discoveredCombos |-> discoveredCombos, lastCashUpdate |-> lastCashUpdate,
     cashHistory |-> cashHistory, itemsToRemove |-> {}, replaced |-> FALSE,
     requests |-> << >>, nextItem |-> nextId.item, extCalls |-> extCalls,
     sold |-> sold, lastEmit |-> lastEmit]

\* the updater of lines 230-378
UpdateState(st, now, deltaTime) ==
    LET s1 == [st EXCEPT !.connections =
                   RefreshConnections(st.connections, st.spawners, st.modifiers)]
        s2 == SpawnLoop(s1, 1, now)
        s3 == MoveLoop(s2, 1, deltaTime)
        s4 == RemoveSold(s3)
        s5 == ProcessLoop(s4, 1, now)
    IN  CashUpdate(s5, now)

(***************************************************************************)
(* The state after the hook is mounted: useState (lines 17-31) and the     *)
(* initial-layout effect (lines 159-206), at time 0, with an empty         *)
(* localStorage.                                                           *)
(***************************************************************************)
KeyConfigs == {"", PLACEHOLDER_KEY, "sk-live"}

waterSpawner == NewSpawner(<< "spawner", 1 >>, 80, 200, "Water", 0)
fireSpawner == NewSpawner(<< "spawner", 2 >>, 80, 320, "Fire", 0)
heatModifier == NewModifier(<< "modifier", 1 >>, 350, 260, SIMPLE_MODIFIERS[1], 0)
waterToHeat ==
    createConnection(<< "connection", 1 >>, waterSpawner.id, "spawner",
                     heatModifier.id, "modifier")
heatToSell ==
    createConnection(<< "connection", 2 >>, heatModifier.id, "modifier",
                     SellId, "sell")

Init ==
    /\ clock = 0
    /\ oddSteps = 0
    /\ apiKey \in KeyConfigs
    /\ lastFrameTime = 0
    /\ lastUpdateTime = 0
    /\ frameDue = FALSE
    /\ animationRef = TRUE
    /\ spawners = << waterSpawner, fireSpawner >>
    /\ modifiers = << heatModifier >>
    /\ connections = << waterToHeat, heatToSell >>
    /\ items = << >>
    /\ totalCash = 0
    /\ cashPerMinute = 0
    /\ discoveredCombos = << >>
    /\ lastCashUpdate = 0
    /\ cashHistory = << >>
    /\ draggedConnection = << >>
    /\ pending = << >>
    /\ persisted = << >>
    /\ nextId = [item |-> 1, spawner |-> 3, modifier |-> 2, connection |-> 3]
    /\ extCalls = << >>
    /\ sold = {}
    /\ lastEmit = [id \in {waterSpawner.id, fireSpawner.id} |-> NeverEmitted]
    /\ gptCall = << >>
    /\ aiCombos = << >>
    /\ aiPending = << >>
    /\ aiReturned = << >>
    /\ keyCall = << >>

\* a loop that waits for every call of the resolver to settle
NoCallInFlight == pending = << >>

\* A promise that needs no network settles in a microtask, before the next
\* frame or event handler runs: without a credential combineItems is such a
\* promise.
MicrotasksDone == HasCredential(apiKey) \/ pending = << >>

\* the clock advances by d milliseconds to the next display refresh, when
\* the browser runs the callback passed to requestAnimationFrame (lines 217,
\* 381, 385)
Advance(d) ==
    /\ MicrotasksDone
    /\ ~frameDue
    /\ animationRef
    /\ frameDue' = TRUE
    /\ animationRef' = FALSE
    /\ clock' = clock + d
    /\ UNCHANGED resolverVars
    /\ oddSteps' = IF d = Step THEN oddSteps ELSE oddSteps + 1
    /\ UNCHANGED << apiKey, lastFrameTime, lastUpdateTime, spawners, modifiers,
                    connections, items, totalCash, cashPerMinute,
                    discoveredCombos, lastCashUpdate, cashHistory,
                    draggedConnection, pending, persisted, nextId, extCalls,
                    sold, lastEmit >>

\* the pending calls after a tick: an older call's array is no longer the
\* state's when the tick replaced newState.items by a filtered copy
PendingAfter(st) ==
    [k \in DOMAIN pending |->
        [pending[k] EXCEPT !.stale = @ \/ st.replaced]] \o st.requests

\* a loop that does not ask for another frame when the throttle skips one
RequestUnlessThrottled(path) == path \in { "skipped", "updated" }

\* whether gameLoop has called requestAnimationFrame(gameLoop) when it
\* returns by the given path: from the throttle (line 220), or from the end
\* of the function (line 381) with the state update skipped or run
requestAnimationFrame(path) == path \in { "throttled", "skipped", "updated" }

\* gameLoop (lines 214-382), run by requestAnimationFrame
Frame ==
    LET now == clock
        deltaTime == now - lastFrameTime
        st == UpdateState(Working, now, deltaTime)
    IN  /\ MicrotasksDone
        /\ frameDue
        /\ frameDue' = FALSE
        /\ UNCHANGED resolverVars
        /\ animationRef' =
              requestAnimationFrame(
                  IF deltaTime * TARGET_FPS < 1000 THEN "throttled"
                  ELSE IF (now - lastUpdateTime) * TARGET_FPS > 1000
                       THEN "updated" ELSE "skipped")
        /\ IF deltaTime * TARGET_FPS < 1000
           THEN UNCHANGED << clock, oddSteps, apiKey, lastFrameTime,
                             lastUpdateTime, spawners, modifiers, connections,
                             items, totalCash, cashPerMinute, discoveredCombos,
                             lastCashUpdate, cashHistory, draggedConnection,
                             pending, persisted, nextId, extCalls, sold,
                             lastEmit >>
           ELSE /\ lastFrameTime' = now
                /\ IF (now - lastUpdateTime) * TARGET_FPS > 1000
                   THEN /\ lastUpdateTime' = now
                        /\ spawners' = st.spawners
                        /\ modifiers' = st.modifiers
                        /\ connections' = st.connections
                        /\ items' = st.items
                        /\ totalCash' = st.totalCash
                        /\ cashPerMinute' = st.cashPerMinute
                        /\ lastCashUpdate' = st.lastCashUpdate
                        /\ cashHistory' = st.cashHistory
                        /\ pending' = PendingAfter(st)
                        /\ nextId' = [nextId EXCEPT !.item = st.nextItem]
                        /\ extCalls' = st.extCalls
                        /\ sold' = st.sold
                        /\ lastEmit' = st.lastEmit
                        /\ UNCHANGED << clock, oddSteps, apiKey,
                                        discoveredCombos, draggedConnection,
                                        persisted >>
                   ELSE UNCHANGED << clock, oddSteps, apiKey, lastUpdateTime,
                                     spawners, modifiers, connections, items,
                                     totalCash, cashPerMinute, discoveredCombos,
                                     lastCashUpdate, cashHistory,
                                     draggedConnection, pending, persisted,
                                     nextId, extCalls, sold, lastEmit >>

RemoveAt(s, i) == SubSeq(s, 1, i - 1) \o SubSeq(s, i + 1, Len(s))

\* JSON.stringify of a number: a non-finite number is written as null, here
\* the empty sequence; a finite one as its digits, here the one-element
\* sequence
JsonNumber(n) == IF n = Infinity THEN << >> ELSE << n >>

\* JSON.parse of what JsonNumber wrote: null is the falsy value
ParseNumber(j) == IF j = << >> THEN 0 ELSE j[1]

\* JSON.stringify of an object of records: strings are written as they are
Stringify(combos) ==
    [k \in DOMAIN combos |->
        [f \in DOMAIN combos[k] |->
            IF f = "cashPerItem" THEN JsonNumber(combos[k][f])
            ELSE combos[k][f]]]

JsonParse(text) ==
    [k \in DOMAIN text |->
        [f \in DOMAIN text[k] |->
            IF f = "cashPerItem" THEN ParseNumber(text[k][f])
            ELSE text[k][f]]]

\* saveDiscoveredCombos (lines 514-520): the value setItem is given
saveDiscoveredCombos(combos) == Stringify(combos)

\* loadDiscoveredCombos (lines 505-512) on the stored entry; an absent entry
\* is the empty object
loadDiscoveredCombos(stored) == JsonParse(stored)

\* a settlement that gives the cycle up when the write to localStorage
\* fails: no record is kept and no output is made
ResolveUnlessWriteFails(i, outcome, draw, saved) ==
    LET p == pending[i]
        result == combineItems(apiKey, outcome, draw).result
        combos == Put(discoveredCombos, p.cacheKey, result)
    IN  /\ UNCHANGED resolverVars
        /\ pending' = RemoveAt(pending, i)
        /\ IF saved
           THEN /\ discoveredCombos' = combos
                /\ persisted' = Stringify(combos)
           ELSE UNCHANGED << discoveredCombos, persisted >>
        /\ IF saved /\ p.outputConnection # << >> /\ ~p.stale
           THEN /\ items' = Append(items, OutputItem(ItemId(nextId.item), result,
                                                     p.outputConnection[1]))
                /\ nextId' = [nextId EXCEPT !.item = @ + 1]
           ELSE UNCHANGED << items, nextId >>
        /\ UNCHANGED << clock, oddSteps, apiKey, lastFrameTime, lastUpdateTime,
                        frameDue, animationRef, spawners, modifiers, connections, totalCash,
                        cashPerMinute, lastCashUpdate, cashHistory,
                        draggedConnection, extCalls, sold, lastEmit >>

\* a settlement that keeps the record only when there is an output
\* connection to put the item on
ResolveForOutput(i, outcome, draw, saved) ==
    LET p == pending[i]
        result == combineItems(apiKey, outcome, draw).result
        combos == IF p.outputConnection # << >>
                  THEN Put(discoveredCombos, p.cacheKey, result)
                  ELSE discoveredCombos
    IN  /\ discoveredCombos' = combos
        /\ UNCHANGED resolverVars
        /\ persisted' = IF saved THEN Stringify(combos) ELSE persisted
        /\ pending' = RemoveAt(pending, i)
        /\ IF p.outputConnection # << >> /\ ~p.stale
           THEN /\ items' = Append(items, OutputItem(ItemId(nextId.item), result,
                                                     p.outputConnection[1]))
                /\ nextId' = [nextId EXCEPT !.item = @ + 1]
           ELSE UNCHANGED << items, nextId >>
        /\ UNCHANGED << clock, oddSteps, apiKey, lastFrameTime, lastUpdateTime,
                        frameDue, animationRef, spawners, modifiers, connections,
                        totalCash, cashPerMinute, lastCashUpdate, cashHistory,
                        draggedConnection, extCalls, sold, lastEmit >>

\* processCombination after the await (lines 59-84) for the i-th pending
\* call: combineItems settles with the record it derives from outcome and
\* draw; saveDiscoveredCombos writes localStorage unless setItem throws
\* (saved = FALSE), which it swallows.  The output item is pushed onto the
\* items array of the state object the call was given; when a later tick has
\* replaced that array (stale), the push does not reach the current state.
Resolve(i, outcome, draw, saved) ==
    LET p == pending[i]
        result == combineItems(apiKey, outcome, draw).result
        combos == Put(discoveredCombos, p.cacheKey, result)
    IN  /\ discoveredCombos' = combos
        /\ UNCHANGED resolverVars
        /\ persisted' = IF saved THEN saveDiscoveredCombos(combos)
                         ELSE persisted
        /\ pending' = RemoveAt(pending, i)
        /\ IF p.outputConnection # << >> /\ ~p.stale
           THEN /\ items' = Append(items, OutputItem(ItemId(nextId.item), result,
                                                     p.outputConnection[1]))
                /\ nextId' = [nextId EXCEPT !.item = @ + 1]
           ELSE UNCHANGED << items, nextId >>
        /\ UNCHANGED << clock, oddSteps, apiKey, lastFrameTime, lastUpdateTime,
                        frameDue, animationRef, spawners, modifiers, connections, totalCash,
                        cashPerMinute, lastCashUpdate, cashHistory,
                        draggedConnection, extCalls, sold, lastEmit >>

(***************************************************************************)
(* Placement and connection operations (lines 393-484).                    *)
(***************************************************************************)
addSpawner(px, py, itemType) ==
    LET id == << "spawner", nextId.spawner >>
    IN  /\ MicrotasksDone
        /\ UNCHANGED resolverVars
        /\ spawners' = Append(spawners, NewSpawner(id, px, py, itemType, clock))
        /\ nextId' = [nextId EXCEPT !.spawner = @ + 1]
        /\ lastEmit' = [k \in DOMAIN lastEmit \cup {id} |->
                           IF k = id THEN NeverEmitted ELSE lastEmit[k]]
        /\ UNCHANGED << clock, oddSteps, apiKey, lastFrameTime, lastUpdateTime,
                        frameDue, animationRef, modifiers, connections, items, totalCash, cashPerMinute,
                        discoveredCombos, lastCashUpdate, cashHistory,
                        draggedConnection, pending, persisted, extCalls, sold >>

addModifier(px, py, modifierType) ==
    LET mi == FindIndex(SIMPLE_MODIFIERS, LAMBDA m : m.name = modifierType)
        id == << "modifier", nextId.modifier >>
    IN  /\ MicrotasksDone
        /\ UNCHANGED resolverVars
        /\ IF mi = 0
           THEN UNCHANGED << modifiers, nextId >>
           ELSE /\ modifiers' = Append(modifiers,
                                       NewModifier(id, px, py, SIMPLE_MODIFIERS[mi], clock))
                /\ nextId' = [nextId EXCEPT !.modifier = @ + 1]
        /\ UNCHANGED << clock, oddSteps, apiKey, lastFrameTime, lastUpdateTime,
                        frameDue, animationRef, spawners, connections, items, totalCash, cashPerMinute,
                        discoveredCombos, lastCashUpdate, cashHistory,
                        draggedConnection, pending, persisted, extCalls, sold,
                        lastEmit >>

UNCHANGED_BY_DRAG ==
    UNCHANGED << clock, oddSteps, apiKey, lastFrameTime, lastUpdateTime,
                 frameDue, animationRef, spawners, modifiers, items, totalCash, cashPerMinute,
                 discoveredCombos, lastCashUpdate, cashHistory, pending,
                 persisted, extCalls, sold, lastEmit, gptCall, aiCombos,
                 aiPending, aiReturned, keyCall >>

startConnection(fromId, fromType, px, py) ==
    /\ MicrotasksDone
    /\ draggedConnection' =
           << [fromId |-> fromId, fromType |-> fromType, startX |-> px,
               startY |-> py, currentX |-> px, currentY |-> py] >>
    /\ UNCHANGED << connections, nextId >>
    /\ UNCHANGED_BY_DRAG

updateDraggedConnection(px, py) ==
    /\ MicrotasksDone
    /\ draggedConnection' =
           IF draggedConnection # << >>
           THEN << [draggedConnection[1] EXCEPT !.currentX = px, !.currentY = py] >>
           ELSE << >>
    /\ UNCHANGED << connections, nextId >>
    /\ UNCHANGED_BY_DRAG

\* a completion that leaves the drag in progress
completeKeepingDrag(toId, toType) ==
    /\ MicrotasksDone
    /\ IF draggedConnection = << >>
       THEN UNCHANGED << connections, draggedConnection, nextId >>
       ELSE /\ connections' =
                   Append(connections,
                          createConnection(<< "connection", nextId.connection >>,
                                           draggedConnection[1].fromId,
                                           draggedConnection[1].fromType,
                                           toId, toType))
            /\ UNCHANGED draggedConnection
            /\ nextId' = [nextId EXCEPT !.connection = @ + 1]
    /\ UNCHANGED_BY_DRAG

completeConnection(toId, toType) ==
    /\ MicrotasksDone
    /\ IF draggedConnection = << >>
       THEN UNCHANGED << connections, draggedConnection, nextId >>
       ELSE /\ connections' =
                   Append(connections,
                          createConnection(<< "connection", nextId.connection >>,
                                           draggedConnection[1].fromId,
                                           draggedConnection[1].fromType,
                                           toId, toType))
            /\ draggedConnection' = << >>
            /\ nextId' = [nextId EXCEPT !.connection = @ + 1]
    /\ UNCHANGED_BY_DRAG

cancelConnection ==
    /\ MicrotasksDone
    /\ draggedConnection' = << >>
    /\ UNCHANGED << connections, nextId >>
    /\ UNCHANGED_BY_DRAG

(***************************************************************************)
(* The environment, within the bounds of the model.  Spec runs the engine  *)
(* on the initial layout with no player input: the clock advances, frames  *)
(* run and resolver calls settle.                                          *)
(***************************************************************************)
\* the responses and the draws of Math.random() the engine is run against
EngineOutcomes ==
    { NetworkError,
      Parsed("Steam", "cloud", 50, "Ingredient"),
      Parsed("Steam", "cloud", 0 - 5, "Ingredient") }
EngineDraws == { [index |-> 1, u |-> 0] }

TickWithin(limit) ==
    \E d \in {Step, ShortStep, PauseStep} :
        /\ clock + d <= limit
        /\ d # Step => oddSteps < MaxOddSteps
        /\ Advance(d)

RunFrameWithin(maxItems) ==
    /\ Frame
    /\ nextId'.item <= maxItems + 1

SettleWithin(maxItems) ==
    \E i \in DOMAIN pending, outcome \in EngineOutcomes, draw \in EngineDraws,
       saved \in BOOLEAN :
        /\ Resolve(i, outcome, draw, saved)
        /\ nextId'.item <= maxItems + 1

Tick == TickWithin(MaxTime)
RunFrame == RunFrameWithin(MaxItems)
Settle == SettleWithin(MaxItems)

Next ==
    \/ Tick
    \/ RunFrame
    \/ Settle

Spec == Init /\ [][Next]_vars

(***************************************************************************)
(* SpecFanIn: one second into the run the player drops Fire spawners on    *)
(* the spot of the Water spawner and wires each of them, in the order      *)
(* dropped, into the Heat modifier; the engine runs throughout.            *)
(***************************************************************************)
FanInTime == 7000
FanInItems == 12
FanInSpawners == 4
FanInAt == 1000

Unwired == { i \in DOMAIN spawners :
                OutputConnection(connections, spawners[i].id, "spawner") = 0 }

FanInTick ==
    /\ draggedConnection = << >>
    /\ TickWithin(FanInTime)

FanInFrame == RunFrameWithin(FanInItems)

FanInSettle == SettleWithin(FanInItems)

FanInPlace ==
    /\ clock = FanInAt
    /\ ~frameDue
    /\ Len(spawners) < 2 + FanInSpawners
    /\ addSpawner(waterSpawner.x, waterSpawner.y, "Fire")

FanInDragStart ==
    \E i \in Unwired :
        /\ clock = FanInAt
        /\ ~frameDue
        /\ i > 2
        /\ \A j \in Unwired : j > 2 => i <= j
        /\ draggedConnection = << >>
        /\ startConnection(spawners[i].id, "spawner",
                           spawners[i].x + spawners[i].width,
                           spawners[i].y + (spawners[i].height \div 2))

FanInDragEnd ==
    /\ draggedConnection # << >>
    /\ completeConnection(heatModifier.id, "modifier")

NextFanIn ==
    \/ FanInTick
    \/ FanInFrame
    \/ FanInSettle
    \/ FanInPlace
    \/ FanInDragStart
    \/ FanInDragEnd

SpecFanIn == Init /\ [][NextFanIn]_vars

(***************************************************************************)
(* AIService (part_001): the caching resolver.  Its amounts are in cents.  *)
(* An ItemData record is modelled by its name, emoji and cashPerItem; the  *)
(* description, rarity, category and complexity are left out.              *)
(***************************************************************************)
createCacheKey(ingredients, modifier) ==
    Join(SortNames(ingredients), "+") \o "+" \o modifier

\* Math.max(0.01, result.cashPerItem || 0.01)
validateAndEnhanceResponse(result) ==
    [name |-> IF result.name = "" THEN "Mysterious Substance" ELSE result.name,
     emoji |-> IF result.emoji = "" THEN "test-tube" ELSE result.emoji,
     cashPerItem |-> Max(1, IF result.cashPerItem = 0 THEN 1 ELSE result.cashPerItem)]

aiFallbacks ==
    << [name |-> "Quantum Essence", emoji |-> "atom", cashPerItem |-> 25000],
       [name |-> "Industrial Compound", emoji |-> "factory", cashPerItem |-> 4500],
       [name |-> "Crystalline Matrix", emoji |-> "gem", cashPerItem |-> 120000],
       [name |-> "Energy Core", emoji |-> "bolt", cashPerItem |-> 850000],
       [name |-> "Neural Network", emoji |-> "brain", cashPerItem |-> 15000000] >>

\* fallbacks[Math.floor(Math.random() * fallbacks.length)]
generateFallbackCombination(index) == aiFallbacks[index]

\* AIService.saveDiscoveredCombos (lines 239-246): Object.fromEntries of the
\* map, stringified
aiSaveDiscoveredCombos(combos) == Stringify(combos)

\* AIService.loadDiscoveredCombos (lines 227-237): the map of the entries of
\* the parsed entry
aiLoadDiscoveredCombos(stored) == JsonParse(stored)

\* generateNewCombination: the ItemData it resolves to and whether axios.post
\* was called
generateNewCombination(key, outcome, index) ==
    IF ~HasCredential(key)
    THEN [item |-> generateFallbackCombination(index), external |-> FALSE]
    ELSE IF outcome.kind = "object"
         THEN [item |-> validateAndEnhanceResponse(outcome), external |-> TRUE]
         ELSE [item |-> generateFallbackCombination(index), external |-> TRUE]

\* the value AIService.combineItems returns for an ItemData (lines 39-49 and
\* 58-68)
AiResponse(item, isNew) ==
    [name |-> item.name, emoji |-> item.emoji, cashPerItem |-> item.cashPerItem,
     type |-> "Ingredient", isNewDiscovery |-> isNew]

\* no response: the call went without the network
NoResponse == [kind |-> "none", name |-> "", emoji |-> "",
               cashPerItem |-> 0, type |-> ""]

engineVars ==
    << clock, oddSteps, lastFrameTime, lastUpdateTime, frameDue, animationRef,
       spawners,
       modifiers, connections, items, totalCash, cashPerMinute,
       discoveredCombos, lastCashUpdate, cashHistory, draggedConnection,
       pending, nextId, sold, lastEmit >>

\* services/gpt combineItems(ingredients, modifier), from call to return
GptCombine(ingredients, modifier, outcome, draw) ==
    LET r == combineItems(apiKey, outcome, draw)
    IN  /\ gptCall' = << [ingredients |-> ingredients, modifier |-> modifier,
                          outcome |-> outcome, result |-> r.result,
                          external |-> r.external] >>
        /\ UNCHANGED << apiKey, persisted, extCalls, aiCombos, aiPending,
                        aiReturned, keyCall >>
        /\ UNCHANGED engineVars

\* AIService.combineItems up to its await (lines 32-55): a cached record is
\* returned at once, otherwise generateNewCombination is started (it posts
\* the request when a credential is configured)
AiRequest(ingredients, modifier) ==
    LET cacheKey == createCacheKey(ingredients, modifier)
    IN  /\ IF cacheKey \in DOMAIN aiCombos
           THEN /\ aiReturned' = << [cacheKey |-> cacheKey,
                                     outcome |-> NoResponse,
                                     external |-> FALSE,
                                     result |-> AiResponse(aiCombos[cacheKey], FALSE)] >>
                /\ UNCHANGED << aiPending, extCalls >>
           ELSE /\ aiPending' = Append(aiPending, cacheKey)
                /\ extCalls' = IF HasCredential(apiKey)
                               THEN Put(extCalls, cacheKey,
                                        IF cacheKey \in DOMAIN extCalls
                                        THEN extCalls[cacheKey] + 1 ELSE 1)
                               ELSE extCalls
                /\ UNCHANGED aiReturned
        /\ UNCHANGED << apiKey, persisted, gptCall, aiCombos, keyCall >>
        /\ UNCHANGED engineVars

\* AIService.combineItems after its await (lines 55-68) for the i-th call in
\* flight; saveDiscoveredCombos swallows a failing setItem (saved = FALSE)
AiComplete(i, outcome, index, saved) ==
    LET cacheKey == aiPending[i]
        new == generateNewCombination(apiKey, outcome, index)
        combos == Put(aiCombos, cacheKey, new.item)
    IN  /\ aiCombos' = combos
        /\ persisted' = IF saved THEN aiSaveDiscoveredCombos(combos)
                         ELSE persisted
        /\ aiPending' = RemoveAt(aiPending, i)
        /\ aiReturned' = << [cacheKey |-> cacheKey, outcome |-> outcome,
                             external |-> new.external,
                             result |-> AiResponse(new.item, TRUE)] >>
        /\ UNCHANGED << apiKey, extCalls, gptCall, keyCall >>
        /\ UNCHANGED engineVars

(***************************************************************************)
(* SpecResolver: the two resolvers driven on their own, one per run, on    *)
(* requests for Water and Fire under Heat.                                 *)
(***************************************************************************)
MaxAiPending == 2

ResolverInputs == { << "Water", "Fire" >>, << "Fire", "Water" >> }

\* what the network answers: nothing when no credential is configured
Responses == IF HasCredential(apiKey) THEN Outcomes ELSE { NoResponse }

AiIdle == aiCombos = << >> /\ aiPending = << >> /\ aiReturned = << >>

ResolveGpt ==
    \E ingredients \in ResolverInputs, outcome \in Responses, draw \in FallbackDraws :
        /\ AiIdle
        /\ GptCombine(ingredients, "Heat", outcome, draw)

RequestAi ==
    \E ingredients \in ResolverInputs :
        /\ gptCall = << >>
        /\ Len(aiPending) < MaxAiPending
        /\ HasCredential(apiKey) \/ aiPending = << >>
        /\ AiRequest(ingredients, "Heat")

CompleteAi ==
    \E i \in DOMAIN aiPending, outcome \in Responses, index \in DOMAIN aiFallbacks,
       saved \in BOOLEAN :
        AiComplete(i, outcome, index, saved)

NextResolver ==
    \/ ResolveGpt
    \/ RequestAi
    \/ CompleteAi

SpecResolver == Init /\ [][NextResolver]_vars

(***************************************************************************)
(* Claims.                                                                 *)
(***************************************************************************)
(* SpecLedger: the initial layout under a slow clock, so that the ledger   *)
(* window of one minute fills and is pruned.  Frames are LedgerStep apart; *)
(* a frame of Step may follow a ledger update, and the tab may stay hidden *)
(* for LedgerPause.  Every call of the resolver settles before the next    *)
(* frame.                                                                  *)
(***************************************************************************)
LedgerStep == 20000
LedgerPause == 70000
LedgerTime == 110000
LedgerItems == 10

LedgerTick ==
    \E d \in {LedgerStep, Step, LedgerPause} :
        /\ clock + d <= LedgerTime
        /\ pending = << >>
        /\ d = Step => lastCashUpdate = clock /\ clock > 0
        /\ Advance(d)

LedgerFrame == RunFrameWithin(LedgerItems)

LedgerSettle == SettleWithin(LedgerItems)

NextLedger ==
    \/ LedgerTick
    \/ LedgerFrame
    \/ LedgerSettle

SpecLedger == Init /\ [][NextLedger]_vars

(***************************************************************************)
(* SpecLive: the initial layout with a game loop that keeps running and a  *)
(* resolver that settles.  requestAnimationFrame is requested again by     *)
(* every frame (line 381), so the next frame comes due as long as the      *)
(* clock runs; a call of the resolver settles, and at most one call stays  *)
(* unanswered across a frame.  That a due frame does run is the premise    *)
(* FramesKeepRunning of the properties checked under this specification.   *)
(***************************************************************************)
LiveTime == 20000
LiveItems == 13

LiveTick ==
    /\ clock + Step <= LiveTime
    /\ Len(pending) <= 1
    /\ Advance(Step)

LiveFrame == RunFrameWithin(LiveItems)

LiveSettle == SettleWithin(LiveItems)

NextLive ==
    \/ LiveTick
    \/ LiveFrame
    \/ LiveSettle

SpecLive ==
    /\ Init
    /\ [][NextLive]_vars
    /\ WF_vars(LiveTick)
    /\ WF_vars(LiveSettle)

\* every frame that comes due runs: again and again no frame is due
FramesKeepRunning == []<>(~frameDue)

(***************************************************************************)
(* SpecPlace: the player's operations on the initial layout.  At PlaceAt   *)
(* the player may drop a spawner and a modifier, of a type of the catalog  *)
(* or of none, and drag connections, from and to blocks of the layout or   *)
(* ids that name no block; then the loop runs on.                          *)
(***************************************************************************)
PlaceAt == 1000
PlaceTime == 7000
PlaceItems == 8
PlaceSpawners == 1
PlaceModifiers == 1
PlaceConnections == 1

PlaceItemTypes == { "Fire", "Unobtainium" }

PlaceModifierTypes == { "Cool", "Unobtainium" }

NoSpawner == << "spawner", 0 >>
NoModifier == << "modifier", 0 >>

PlaceIdle == clock = PlaceAt /\ ~frameDue

PlaceTick ==
    /\ draggedConnection = << >>
    /\ clock + Step <= PlaceTime
    /\ Advance(Step)

PlaceFrame == RunFrameWithin(PlaceItems)

PlaceSettle == SettleWithin(PlaceItems)

PlaceSpawner ==
    \E itemType \in PlaceItemTypes :
        /\ PlaceIdle
        /\ Len(spawners) < 2 + PlaceSpawners
        /\ addSpawner(fireSpawner.x, fireSpawner.y + 120, itemType)

PlaceModifier ==
    \E modifierType \in PlaceModifierTypes :
        /\ PlaceIdle
        /\ Len(modifiers) < 1 + PlaceModifiers
        /\ addModifier(heatModifier.x, heatModifier.y + 160, modifierType)

DragStart ==
    \E from \in { spawners[i].id : i \in DOMAIN spawners } \cup { NoSpawner } :
        /\ PlaceIdle
        /\ draggedConnection = << >>
        /\ Len(connections) < 2 + PlaceConnections
        /\ from # waterSpawner.id
        /\ startConnection(from, "spawner", 160, 350)

DragMove ==
    /\ PlaceIdle
    /\ IF draggedConnection = << >> THEN TRUE
       ELSE draggedConnection[1].currentX # 300
    /\ updateDraggedConnection(300, 340)

DragEnd ==
    \E to \in { modifiers[i].id : i \in DOMAIN modifiers }
                  \cup { SellId, NoModifier } :
        /\ PlaceIdle
        /\ completeConnection(to, IF to = SellId THEN "sell" ELSE "modifier")

DragCancel ==
    /\ PlaceIdle
    /\ cancelConnection

NextPlace ==
    \/ PlaceTick
    \/ PlaceFrame
    \/ PlaceSettle
    \/ PlaceSpawner
    \/ PlaceModifier
    \/ DragStart
    \/ DragMove
    \/ DragEnd
    \/ DragCancel

SpecPlace == Init /\ [][NextPlace]_vars

(***************************************************************************)
(* SpecKeys: the two cache-key functions called on their own, on every     *)
(* list of up to MaxIngredients names.                                     *)
(***************************************************************************)
MaxIngredients == 3

\* "Fire+Water" stands for a name made by the resolver, which may hold any
\* character
KeyNames == { "Water", "Fire", "Air", "Fire+Water" }

KeyModifiers == { "Heat", "Cool" }

KeyInputs ==
    UNION { [1..n -> KeyNames] : n \in 1..MaxIngredients }

\* the caller's array after the call: sort() acts on the copy
\* [...ingredients], the array passed in is not written
CallerArrayAfter(ingredients) == ingredients

\* getCachedCombo(ingredients, modifier) and createCacheKey(ingredients,
\* modifier), from call to return
MakeKeys(ingredients, modifier) ==
    /\ keyCall' = << [ingredients |-> ingredients, modifier |-> modifier,
                      key |-> getCachedCombo(ingredients, modifier),
                      aiKey |-> createCacheKey(ingredients, modifier),
                      after |-> CallerArrayAfter(ingredients)] >>
    /\ UNCHANGED << apiKey, persisted, extCalls, gptCall, aiCombos, aiPending,
                    aiReturned >>
    /\ UNCHANGED engineVars

NextKeys ==
    \E ingredients \in KeyInputs, modifier \in KeyModifiers :
        MakeKeys(ingredients, modifier)

SpecKeys == Init /\ [][NextKeys]_vars

(***************************************************************************)
(* SpecStore: two sessions over one localStorage.  The engine runs on the  *)
(* initial layout; six seconds into the run the page is loaded again: the  *)
(* hook is mounted anew (useState, lines 17-31, and the initial-layout     *)
(* effect, lines 159-206, both at the time of the reload), the calls of    *)
(* the old page are gone with it, and the store is what the old page       *)
(* managed to write.                                                       *)
(***************************************************************************)
StoreReloadAt == 6000
StoreTime == 12000
StoreItems == 6

\* loadDiscoveredCombos (lines 505-512) with its catch: getItem or
\* JSON.parse throwing yields the empty object
LoadOrEmpty(stored, throws) ==
    IF throws THEN << >> ELSE loadDiscoveredCombos(stored)

\* the initial-layout effect (lines 159-206) at time now
MountedSpawners(now) ==
    << NewSpawner(waterSpawner.id, waterSpawner.x, waterSpawner.y, "Water", now),
       NewSpawner(fireSpawner.id, fireSpawner.x, fireSpawner.y, "Fire", now) >>
MountedModifiers(now) ==
    << NewModifier(heatModifier.id, heatModifier.x, heatModifier.y,
                   SIMPLE_MODIFIERS[1], now) >>

Mount(throws) ==
    /\ ~frameDue
    /\ UNCHANGED resolverVars
    /\ UNCHANGED << clock, oddSteps, apiKey, persisted, frameDue >>
    /\ animationRef' = TRUE
    /\ lastFrameTime' = clock
    /\ lastUpdateTime' = clock
    /\ spawners' = MountedSpawners(clock)
    /\ modifiers' = MountedModifiers(clock)
    /\ connections' = << waterToHeat, heatToSell >>
    /\ items' = << >>
    /\ totalCash' = 0
    /\ cashPerMinute' = 0
    /\ discoveredCombos' = LoadOrEmpty(persisted, throws)
    /\ lastCashUpdate' = clock
    /\ cashHistory' = << >>
    /\ draggedConnection' = << >>
    /\ pending' = << >>
    /\ nextId' = [item |-> 1, spawner |-> 3, modifier |-> 2, connection |-> 3]
    /\ extCalls' = << >>
    /\ sold' = {}
    /\ lastEmit' = [id \in {waterSpawner.id, fireSpawner.id} |-> NeverEmitted]

StoreTick == clock + Step <= StoreTime /\ Advance(Step)
StoreFrame == RunFrameWithin(StoreItems)
StoreSettle == SettleWithin(StoreItems)
Reload ==
    \E throws \in BOOLEAN :
        /\ clock = StoreReloadAt
        /\ Mount(throws)

NextStore ==
    \/ StoreTick
    \/ StoreFrame
    \/ StoreSettle
    \/ Reload

SpecStore == Init /\ [][NextStore]_vars

(***************************************************************************)
(* SpecLoop: the loop on every path through gameLoop.  Frames come a full  *)
(* step or, once, a few milliseconds apart (the throttle skips the         *)
(* latter); one second into the run a connection is drawn from the Fire    *)
(* spawner to a modifier that does not exist; the resolver's answers       *)
(* include the network error, and the writes to localStorage may fail.     *)
(* The browser runs a requested frame and settles a pending call sooner or *)
(* later: weak fairness on the clock's advance and on the settlement.      *)
(***************************************************************************)
LoopAt == 1000
LoopTime == 9000
LoopItems == 6

LoopIdle == clock = LoopAt /\ ~frameDue

LoopTick ==
    \E d \in { Step, ShortStep } :
        /\ clock + d <= LoopTime
        /\ d # Step => oddSteps < MaxOddSteps
        /\ Len(pending) <= 1
        /\ Advance(d)
LoopFrame == RunFrameWithin(LoopItems)
LoopSettle == SettleWithin(LoopItems)
LoopDragStart ==
    /\ LoopIdle
    /\ draggedConnection = << >>
    /\ Len(connections) < 3
    /\ startConnection(fireSpawner.id, "spawner", 160, 350)
LoopDragEnd ==
    /\ LoopIdle
    /\ draggedConnection # << >>
    /\ completeConnection(NoModifier, "modifier")

NextLoop ==
    \/ LoopTick
    \/ LoopFrame
    \/ LoopSettle
    \/ LoopDragStart
    \/ LoopDragEnd

SpecLoop ==
    Init /\ [][NextLoop]_vars /\ WF_vars(LoopTick) /\ WF_vars(LoopSettle)

(***************************************************************************)
(* SpecAbut: blocks dropped edge to edge.  Two seconds into the run the    *)
(* player drops a Cool modifier whose left-centre edge is the right-centre *)
(* edge of the Fire spawner, and a Fire spawner whose right-centre edge is *)
(* the centre of the sell zone, and draws connections from the two Fire    *)
(* spawners to the Cool modifier or to the sell zone: a connection between *)
(* abutting blocks has two equal endpoints.                                *)
(***************************************************************************)
AbutAt == 2000
AbutTime == 6000
AbutItems == 8
AbutConnections == 2

AbutIdle == clock = AbutAt /\ ~frameDue

AbutTick ==
    /\ draggedConnection = << >>
    /\ clock + Step <= AbutTime
    /\ Advance(Step)
AbutFrame == RunFrameWithin(AbutItems)
AbutSettle == SettleWithin(AbutItems)
AbutModifier ==
    /\ AbutIdle
    /\ Len(modifiers) = 1
    /\ addModifier(fireSpawner.x + fireSpawner.width,
                   fireSpawner.y + (fireSpawner.height \div 2) - (MODIFIER_HEIGHT \div 2),
                   "Cool")
AbutSpawner ==
    /\ AbutIdle
    /\ Len(spawners) = 2
    /\ addSpawner(SELL_ZONE.x + (SELL_ZONE.width \div 2) - SPAWNER_WIDTH,
                  SELL_ZONE.y + (SELL_ZONE.height \div 2) - (SPAWNER_HEIGHT \div 2),
                  "Fire")
AbutDragStart ==
    \E s \in DOMAIN spawners :
        /\ AbutIdle
        /\ draggedConnection = << >>
        /\ Len(connections) < 2 + AbutConnections
        /\ spawners[s].id # waterSpawner.id
        /\ OutputConnection(connections, spawners[s].id, "spawner") = 0
        /\ startConnection(spawners[s].id, "spawner",
                           spawners[s].x + spawners[s].width, spawners[s].y)
AbutDragEnd ==
    \E to \in { modifiers[m].id : m \in DOMAIN modifiers } \cup { SellId } :
        /\ AbutIdle
        /\ draggedConnection # << >>
        /\ to # heatModifier.id
        /\ completeConnection(to, IF to = SellId THEN "sell" ELSE "modifier")

NextAbut ==
    \/ AbutTick
    \/ AbutFrame
    \/ AbutSettle
    \/ AbutModifier
    \/ AbutSpawner
    \/ AbutDragStart
    \/ AbutDragEnd

SpecAbut == Init /\ [][NextAbut]_vars

(***************************************************************************)
(* SpecWait: frames half a second apart.  One second into the run the      *)
(* player wires the Fire spawner into the Heat modifier, so that Fire and  *)
(* Water arrive a tick apart and the later one waits at the modifier over  *)
(* several ticks for the processing interval to pass.                      *)
(***************************************************************************)
HalfStep == 500
WaitAt == 1000
WaitTime == 8000
WaitItems == 8

WaitIdle == clock = WaitAt /\ ~frameDue

WaitTick ==
    /\ draggedConnection = << >>
    /\ clock + HalfStep <= WaitTime
    /\ Advance(HalfStep)
WaitFrame == RunFrameWithin(WaitItems)
WaitSettle == SettleWithin(WaitItems)
WaitDragStart ==
    /\ WaitIdle
    /\ draggedConnection = << >>
    /\ Len(connections) = 2
    /\ startConnection(fireSpawner.id, "spawner",
                       fireSpawner.x + fireSpawner.width,
                       fireSpawner.y + (fireSpawner.height \div 2))
WaitDragEnd ==
    /\ WaitIdle
    /\ draggedConnection # << >>
    /\ completeConnection(heatModifier.id, "modifier")

NextWait ==
    \/ WaitTick
    \/ WaitFrame
    \/ WaitSettle
    \/ WaitDragStart
    \/ WaitDragEnd

SpecWait == Init /\ [][NextWait]_vars

(***************************************************************************)
(* SpecLate: spawners wired late.  Four seconds into the run, when the     *)
(* interval of the unconnected Fire spawner has long passed, the player    *)
(* may drop a spawner of a type the catalog does not have, and draws       *)
(* connections from the unconnected spawners to the Heat modifier or the   *)
(* sell zone.                                                              *)
(***************************************************************************)
LateAt == 4000
LateTime == 8000
LateItems == 8
LateConnections == 2

LateIdle == clock = LateAt /\ ~frameDue

LateTick ==
    /\ draggedConnection = << >>
    /\ clock + Step <= LateTime
    /\ Advance(Step)
LateFrame == RunFrameWithin(LateItems)
LateSettle == SettleWithin(LateItems)
LateSpawner ==
    /\ LateIdle
    /\ Len(spawners) = 2
    /\ addSpawner(fireSpawner.x, fireSpawner.y + 120, "Unobtainium")
LateDragStart ==
    \E s \in DOMAIN spawners :
        /\ LateIdle
        /\ draggedConnection = << >>
        /\ Len(connections) < 2 + LateConnections
        /\ OutputConnection(connections, spawners[s].id, "spawner") = 0
        /\ startConnection(spawners[s].id, "spawner",
                           spawners[s].x + spawners[s].width,
                           spawners[s].y + (spawners[s].height \div 2))
LateDragEnd ==
    \E to \in { heatModifier.id, SellId } :
        /\ LateIdle
        /\ draggedConnection # << >>
        /\ completeConnection(to, IF to = SellId THEN "sell" ELSE "modifier")

NextLate ==
    \/ LateTick
    \/ LateFrame
    \/ LateSettle
    \/ LateSpawner
    \/ LateDragStart
    \/ LateDragEnd

SpecLate == Init /\ [][NextLate]_vars

(***************************************************************************)
(* SpecFork: sources with several connections.  One second into the run    *)
(* the player draws further connections from the two spawners and from the *)
(* Heat modifier to the Heat modifier or the sell zone.                    *)
(***************************************************************************)
ForkAt == 1000
ForkTime == 7000
ForkItems == 8
ForkConnections == 2

ForkIdle == clock = ForkAt /\ ~frameDue

ForkTick ==
    /\ draggedConnection = << >>
    /\ clock + Step <= ForkTime
    /\ Advance(Step)
ForkFrame == RunFrameWithin(ForkItems)
ForkSettle == SettleWithin(ForkItems)
ForkDragStart ==
    \E from \in { << waterSpawner.id, "spawner" >>, << fireSpawner.id, "spawner" >>,
                  << heatModifier.id, "modifier" >> } :
        /\ ForkIdle
        /\ draggedConnection = << >>
        /\ Len(connections) < 2 + ForkConnections
        /\ startConnection(from[1], from[2], 160, 350)
ForkDragEnd ==
    \E to \in { heatModifier.id, SellId } :
        /\ ForkIdle
        /\ draggedConnection # << >>
        /\ draggedConnection[1].fromId # to
        /\ completeConnection(to, IF to = SellId THEN "sell" ELSE "modifier")

NextFork ==
    \/ ForkTick
    \/ ForkFrame
    \/ ForkSettle
    \/ ForkDragStart
    \/ ForkDragEnd

SpecFork == Init /\ [][NextFork]_vars

(***************************************************************************)
\* the bound of the pending-input collection ("Max 3 items processing at
\* once", line 738)
PENDING_INPUT_BOUND == 3

RECURSIVE SumCash(_)
SumCash(S) ==
    IF S = {} THEN 0
    ELSE LET r == CHOOSE q \in S : TRUE IN r.cash + SumCash(S \ {r})

\* the step is a tick that ran the state update
TickRan == lastUpdateTime' # lastUpdateTime

\* the item was created by the step
NewInStep(item) == item.id[2] >= nextId.item

ConnectionOf(conns, item) == FindIndex(conns, LAMBDA c : c.id = item.connectionId)

CallsFor(calls, k) == IF k \in DOMAIN calls THEN calls[k] ELSE 0

\* C1: totalCash never decreases from one state to the next, whatever the
\* items sold, outputs priced by an accepted external response included.
C1_CashNeverDecreases == [][totalCash' >= totalCash]_vars

\* C2: in every tick the increase of totalCash is the sum of cashPerItem over
\* exactly the items that reached the end of a connection to the sell zone in
\* that tick; each of them is gone from the item collection when the tick
\* ends and was never credited before.
C2_SaleAccounting ==
    [][ /\ totalCash' - totalCash = SumCash(sold' \ sold)
        /\ \A r \in sold' \ sold :
              /\ \E i \in DOMAIN items :
                    /\ items[i].id = r.id
                    /\ items[i].cashPerItem = r.cash
                    /\ ConnectionOf(connections', items[i]) # 0
                    /\ connections'[ConnectionOf(connections', items[i])].toType = "sell"
              /\ \A j \in DOMAIN items' : items'[j].id # r.id
              /\ \A q \in sold : q.id # r.id
        /\ TickRan =>
              \A i \in DOMAIN items :
                 LET ci == ConnectionOf(connections', items[i])
                 IN  (/\ ci # 0
                      /\ connections'[ci].toType = "sell"
                      /\ NewProgress(items[i].progress, clock - lastFrameTime,
                                     Distance(connections'[ci])) >= ProgressScale)
                     => [id |-> items[i].id, cash |-> items[i].cashPerItem]
                           \in sold' \ sold
      ]_vars

C2_OutputSold ==
    \E r \in sold : r.cash > 0 /\ totalCash = r.cash

\* C3: every item's progress is within [0, 1], and from one state to the
\* next the progress of an item that stays on the same connection does not
\* decrease.
C3_ProgressMonotone ==
    [][ /\ \A j \in DOMAIN items' :
              0 <= items'[j].progress /\ items'[j].progress <= ProgressScale
        /\ \A i \in DOMAIN items, j \in DOMAIN items' :
              (items'[j].id = items[i].id
                 /\ items'[j].connectionId = items[i].connectionId)
              => items'[j].progress >= items[i].progress
      ]_vars

C3_ItemUnderWay ==
    \E j \in DOMAIN items :
        /\ items[j].progress > ProgressScale \div 2
        /\ items[j].progress < ProgressScale

\* C4, as stated: the external generator is invoked at most once for a
\* (sorted inputs, modifier) pair, a second request made while the first
\* resolution is in flight included.
C4_OneExternalCallPerKey == \A k \in DOMAIN extCalls : extCalls[k] <= 1

\* C4, amended: once a resolution has stored the record of a (sorted inputs,
\* modifier) pair, no step invokes the external generator for the pair, and
\* the output item of a later processing cycle is made from the stored
\* record.
C4_NoExternalCallOnceStored ==
    [][ /\ \A k \in DOMAIN extCalls' :
              k \in DOMAIN discoveredCombos
              => CallsFor(extCalls', k) = CallsFor(extCalls, k)
        /\ TickRan =>
              \A j \in DOMAIN items' :
                 (NewInStep(items'[j])
                    /\ connections'[ConnectionOf(connections', items'[j])].fromType
                          = "modifier")
                 => \E k \in DOMAIN discoveredCombos :
                       /\ items'[j].name = discoveredCombos[k].name
                       /\ items'[j].emoji = discoveredCombos[k].emoji
                       /\ items'[j].cashPerItem = discoveredCombos[k].cashPerItem
                       /\ items'[j].type = discoveredCombos[k].type
      ]_vars

\* two outputs of the Heat modifier after a single external call: the second
\* was made from the stored record
C4_SecondOutputFromCache ==
    /\ \E k \in DOMAIN extCalls : extCalls[k] = 1
    /\ pending = << >>
    /\ Cardinality({ j \in DOMAIN items : items[j].connectionId = heatToSell.id }) >= 2

\* C5: when the resolver call of a processing cycle completes and the
\* modifier has an outbound connection, the step adds one item with progress
\* 0 on that connection to the item collection, whatever ticks ran since the
\* request.
C5_CompletionDeliversOutput ==
    [][ \A i \in DOMAIN pending :
           (pending' = RemoveAt(pending, i) /\ pending[i].outputConnection # << >>)
           => /\ Len(items') = Len(items) + 1
              /\ items'[Len(items')].progress = 0
              /\ items'[Len(items')].connectionId = pending[i].outputConnection[1].id
      ]_vars

\* C6: in every reachable state each modifier's pending-input collection
\* holds at most 3 item ids.
C6_PendingInputsBounded ==
    \A i \in DOMAIN modifiers : Len(modifiers[i].inputs) <= PENDING_INPUT_BOUND

\* C7: a step makes a spawner emit at most one item, and two consecutive
\* emissions of a spawner are at least its spawnInterval apart.
C7_EmissionsSpaced ==
    [][ \A i \in DOMAIN spawners :
           LET before == lastEmit[spawners[i].id]
               after == lastEmit'[spawners[i].id]
           IN  /\ after.count <= before.count + 1
               /\ (after.count > before.count /\ before.count > 0)
                  => after.at - before.at >= spawners[i].spawnInterval
      ]_vars

\* the Water spawner's second emission came after a pause of at least two
\* intervals
C7_EmittedAfterPause ==
    /\ lastEmit[waterSpawner.id].count = 2
    /\ lastEmit[waterSpawner.id].at >= 3 * waterSpawner.spawnInterval

\* C8: a step in which a spawner is the source of no connection does not
\* make it emit: its emission record and lastSpawn stay, and an item of its
\* type that the step adds comes from a connected spawner of that type.
C8_UnconnectedNeverEmits ==
    [][ \A i \in DOMAIN spawners :
           (\A k \in DOMAIN connections : connections[k].fromId # spawners[i].id)
           => /\ lastEmit'[spawners[i].id] = lastEmit[spawners[i].id]
              /\ spawners'[i].lastSpawn = spawners[i].lastSpawn
              /\ \A j \in DOMAIN items' :
                    (NewInStep(items'[j]) /\ items'[j].name = spawners[i].itemType)
                    => \E h \in DOMAIN spawners, k \in DOMAIN connections :
                          /\ spawners[h].itemType = spawners[i].itemType
                          /\ connections[k].fromId = spawners[h].id
      ]_vars

\* the Fire spawner, unconnected, is past its interval in a state where the
\* Water spawner has emitted
C8_FireSilent ==
    /\ \A k \in DOMAIN connections : connections[k].fromId # fireSpawner.id
    /\ lastEmit[fireSpawner.id].count = 0
    /\ lastEmit[waterSpawner.id].count > 0
    /\ lastFrameTime - spawners[2].lastSpawn >= spawners[2].spawnInterval

\* C9: with the credential absent or the placeholder, combineItems returns a
\* record whose name, emoji and type are populated and whose cashPerItem is
\* positive, and makes no external call.
C9_OfflineTemplate ==
    \A i \in DOMAIN gptCall :
        (apiKey = "" \/ apiKey = PLACEHOLDER_KEY)
        => /\ gptCall[i].result.name # ""
           /\ gptCall[i].result.emoji # ""
           /\ gptCall[i].result.type \in {"Ingredient", "Modifier"}
           /\ gptCall[i].result.cashPerItem > 0
           /\ ~gptCall[i].external

C9_OfflineCall ==
    /\ apiKey = PLACEHOLDER_KEY
    /\ gptCall # << >>
    /\ gptCall[1].result.name = "Cosmic Blender"

\* the external call came back with an error, with content that does not
\* parse, or with an object that lacks one of the four required fields
Rejected(o) ==
    \/ o.kind # "object"
    \/ o.name = ""
    \/ o.emoji = ""
    \/ o.cashPerItem = 0
    \/ o.type = ""

\* C10: after an external call that came back with an error, unparseable
\* content or an object missing a required field, either resolver returns a
\* record of its fallback table.
C10_RejectedFallsBack ==
    /\ \A i \in DOMAIN gptCall :
          (gptCall[i].external /\ Rejected(gptCall[i].outcome))
          => \E draw \in FallbackDraws :
                gptCall[i].result = generateFallbackResponse(draw)
    /\ \A i \in DOMAIN aiReturned :
          (aiReturned[i].external /\ Rejected(aiReturned[i].outcome))
          => \E index \in DOMAIN aiFallbacks :
                aiReturned[i].result
                   = AiResponse(generateFallbackCombination(index), TRUE)

\* C11: a record that services/gpt combineItems returns after an external
\* call, a record AIService stores and the cash value AIService returns all
\* have a cash value of at least the positive minimum (one cent).
C11_CashClamped ==
    /\ \A i \in DOMAIN gptCall :
          gptCall[i].external => gptCall[i].result.cashPerItem > 0
    /\ \A k \in DOMAIN aiCombos : aiCombos[k].cashPerItem >= 1
    /\ \A i \in DOMAIN aiReturned : aiReturned[i].result.cashPerItem >= 1

\* C12: a key that is present in the discovery cache stays present with the
\* record it was first stored with, in the engine's cache and in AIService's.
C12_StoredRecordKept ==
    [][ /\ \A k \in DOMAIN discoveredCombos :
              /\ k \in DOMAIN discoveredCombos'
              /\ discoveredCombos'[k] = discoveredCombos[k]
        /\ \A k \in DOMAIN aiCombos :
              /\ k \in DOMAIN aiCombos'
              /\ aiCombos'[k] = aiCombos[k] ]_vars

\* C13: a stored record survives the round trip through the persisted
\* entry.  Whenever a step stores a record and writes the entry, loading the
\* entry yields the in-memory mapping (engine and AIService); and a record
\* services/gpt combineItems returns, stored under a key and saved as
\* processCombination does, loads back as the same record.
C13_EngineRoundTrip ==
    discoveredCombos' # discoveredCombos /\ persisted' # persisted
        => loadDiscoveredCombos(persisted') = discoveredCombos'

C13_AiRoundTrip ==
    aiCombos' # aiCombos /\ persisted' # persisted
        => aiLoadDiscoveredCombos(persisted') = aiCombos'

C13_ResultRoundTrip ==
    \A i \in DOMAIN gptCall' :
        LET combos == Put(<< >>, "Water+Fire+Heat", gptCall'[i].result)
        IN  loadDiscoveredCombos(saveDiscoveredCombos(combos)) = combos

C13_RoundTrip ==
    [][C13_EngineRoundTrip /\ C13_AiRoundTrip /\ C13_ResultRoundTrip]_vars

\* the arrangements of the names of s, each name as often as in s
Perms(s) ==
    { t \in [DOMAIN s -> Range(s)] :
        \A n \in Range(s) :
            Cardinality({ i \in DOMAIN s : t[i] = n })
                = Cardinality({ i \in DOMAIN s : s[i] = n }) }

\* C14: getCachedCombo and createCacheKey return the same key for every
\* arrangement of the same names with the same modifier, and the list passed
\* in is the same after the call.
C14_KeyIgnoresOrder ==
    \A i \in DOMAIN keyCall :
        /\ \A t \in Perms(keyCall[i].ingredients) :
              /\ getCachedCombo(t, keyCall[i].modifier) = keyCall[i].key
              /\ createCacheKey(t, keyCall[i].modifier) = keyCall[i].aiKey
        /\ keyCall[i].after = keyCall[i].ingredients

C14_UnsortedListKeyed ==
    /\ keyCall # << >>
    /\ keyCall[1].ingredients = << "Water", "Fire", "Water" >>
    /\ keyCall[1].key = "Fire+Water+Water+Heat"
    /\ keyCall[1].aiKey = "Fire+Water+Water+Heat"

\* a frame updated the ledger in this step
LedgerUpdated == lastCashUpdate' # lastCashUpdate

\* the rate of the window: newest cash minus oldest cash, over the time
\* between the two samples, for one minute
WindowRate(history) ==
    MulDiv(history[Len(history)].cash - history[1].cash, 60000,
           history[Len(history)].timestamp - history[1].timestamp)

\* C15: after a ledger update that leaves two or more samples, cashPerMinute
\* is (newest cash - oldest cash) / (newest time - oldest time) * 60000 over
\* the pruned window; the window (t0, 100), (t0 + 30000, 130) gives 60.
C15_RateOverWindow ==
    [][ /\ LedgerUpdated /\ Len(cashHistory') >= 2
            => cashPerMinute' = WindowRate(cashHistory')
        /\ \A t0 \in {0, LedgerStep} :
              updateCashPerMinute(
                  [cashHistory |-> << [timestamp |-> t0, cash |-> 100] >>,
                   totalCash |-> 130, cashPerMinute |-> 0],
                  t0 + 30000).cashPerMinute = 60 ]_vars

C15_RateReported ==
    /\ Len(cashHistory) >= 3
    /\ cashHistory[1].timestamp > LedgerStep
    /\ cashPerMinute = 300

\* C16: after a ledger update at time now every sample is younger than one
\* minute (timestamp > now - 60000), the samples' timestamps increase
\* strictly, and a sample is appended only when more than 1000 ms have
\* passed since the previous ledger update.
C16_WindowKept ==
    [][ /\ \A i \in DOMAIN cashHistory' :
              cashHistory'[i].timestamp > lastCashUpdate' - 60000
        /\ \A i \in DOMAIN cashHistory' :
              i > 1 => cashHistory'[i].timestamp > cashHistory'[i - 1].timestamp
        /\ cashHistory' # cashHistory
              => /\ clock - lastCashUpdate > 1000
                 /\ cashHistory'[Len(cashHistory')].timestamp = clock ]_vars

C16_OldSamplePruned ==
    /\ Len(cashHistory) >= 2
    /\ lastCashUpdate - 60000 >= LedgerStep
    /\ cashHistory[1].timestamp > LedgerStep

\* C17: a ledger update that leaves fewer than two samples, or samples whose
\* time span is not positive, leaves cashPerMinute as it was.
C17_RateKept ==
    [][ LedgerUpdated
        /\ (\/ Len(cashHistory') < 2
            \/ cashHistory'[Len(cashHistory')].timestamp
                   <= cashHistory'[1].timestamp)
        => cashPerMinute' = cashPerMinute ]_vars

C17_RateKeptAfterPause ==
    /\ Len(cashHistory) = 1
    /\ lastCashUpdate = cashHistory[1].timestamp
    /\ cashPerMinute # 0

\* C18: from the initial layout, with frames that keep running and a
\* resolver that settles, eventually an output of Heat has reached the sell
\* sink and totalCash is the cash of what was sold.
C18_OutputEventuallySold ==
    FramesKeepRunning => <>(sold # {} /\ totalCash = SumCash(sold))

C18_FirstOutputSold ==
    /\ Cardinality(sold) = 1
    /\ totalCash = SumCash(sold)
    /\ discoveredCombos # << >>
    /\ lastEmit[waterSpawner.id].count >= 2

\* C19: an item that arrives at Heat is not converted in the tick of its
\* arrival: a modifier that processes in a step had its inputs pending
\* before the step.
C19_NotConvertedOnArrival ==
    [][ \A m \in DOMAIN modifiers :
            modifiers'[m].lastProcess # modifiers[m].lastProcess
                => modifiers[m].inputs # << >> ]_vars

\* C20: an item whose id is in a modifier's pending-input set is no longer
\* in the traveling item collection: it left the collection in the tick in
\* which it arrived.
C20_ArrivedItemLeftTraveling ==
    \A m \in DOMAIN modifiers :
        \A k \in DOMAIN modifiers[m].inputs :
            \A j \in DOMAIN items : items[j].id # modifiers[m].inputs[k]

\* C21: every id in a modifier's pending-input collection is the id of an
\* item that is in the item collection.
C21_PendingInputsExist ==
    \A m \in DOMAIN modifiers :
        \A k \in DOMAIN modifiers[m].inputs :
            \E j \in DOMAIN items : items[j].id = modifiers[m].inputs[k]

C21_InputsAwaitProcessing ==
    /\ Len(modifiers[1].inputs) >= 2
    /\ clock - modifiers[1].lastProcess < modifiers[1].processInterval
    /\ ~frameDue

\* the modifier at index m processed in this step
Processed(m) ==
    /\ m \in DOMAIN modifiers'
    /\ modifiers'[m].lastProcess # modifiers[m].lastProcess

\* C22: in the tick in which a modifier starts a processing cycle its
\* pending-input set becomes empty and the items it held leave the item
\* collection, so no id is pending at a modifier after the cycle that
\* consumed it.
C22_InputsConsumedOnce ==
    [][ \A m \in DOMAIN modifiers :
            Processed(m)
                => /\ modifiers'[m].inputs = << >>
                   /\ \A k \in DOMAIN modifiers[m].inputs :
                         /\ \A j \in DOMAIN items' :
                               items'[j].id # modifiers[m].inputs[k]
                         /\ \A n \in DOMAIN modifiers' :
                               ~Includes(modifiers'[n].inputs,
                                         modifiers[m].inputs[k]) ]_vars

C22_SeveralInputsConsumed ==
    /\ modifiers[1].lastProcess = clock
    /\ modifiers[1].inputs = << >>
    /\ clock = FanInTime
    /\ \E k \in DOMAIN pending : Len(pending[k].ingredients) >= 2

\* a call of the resolver is awaiting the network
CallInFlight == pending # << >> /\ (apiKey # "" /\ apiKey # PLACEHOLDER_KEY)

\* C23: a call of the resolver that has not completed does not block the
\* loop.  While a call is in flight the next frame can come due, and a tick
\* that runs then still emits from every wired spawner whose interval has
\* elapsed, moves every item under way, credits what reaches the sell zone
\* and processes every modifier whose inputs wait and whose interval has
\* elapsed.
C23_TickUnblocked ==
    /\ [](CallInFlight /\ Len(pending) <= 1 /\ ~frameDue
              /\ clock + Step <= LiveTime => ENABLED LiveTick)
    /\ [][ CallInFlight /\ TickRan
           => /\ \A i \in DOMAIN spawners :
                    (/\ clock - spawners[i].lastSpawn >= spawners[i].spawnInterval
                     /\ \E c \in DOMAIN connections :
                           /\ connections[c].fromId = spawners[i].id
                           /\ connections[c].fromType = "spawner"
                     /\ spawners[i].itemType = "Water")
                    => spawners'[i].lastSpawn = clock
              /\ \A i \in DOMAIN items :
                    items[i].progress < ProgressScale
                    => \/ \E j \in DOMAIN items' :
                             /\ items'[j].id = items[i].id
                             /\ items'[j].progress > items[i].progress
                       \/ \E r \in sold' \ sold : r.id = items[i].id
                       \/ \E m \in DOMAIN modifiers : Processed(m)
              /\ totalCash' - totalCash = SumCash(sold' \ sold)
              /\ \A m \in DOMAIN modifiers :
                    (/\ modifiers[m].inputs # << >>
                     /\ clock - modifiers[m].lastProcess
                            >= modifiers[m].processInterval)
                    => Processed(m) ]_vars

C23_SoldDuringFlight ==
    /\ CallInFlight
    /\ pending[1].stale
    /\ sold # {}
    /\ lastEmit[waterSpawner.id].count >= 3

\* C24: placing a spawner of a type that is not in the resource catalog, or
\* a modifier of a type that is not in the modifier catalog, creates
\* nothing: every spawner and every modifier of the layout is of a type of
\* its catalog.
C24_UnknownTypeNotPlaced ==
    /\ \A i \in DOMAIN spawners :
          \E k \in DOMAIN ELEMENTAL_INGREDIENTS :
              ELEMENTAL_INGREDIENTS[k].name = spawners[i].itemType
    /\ \A i \in DOMAIN modifiers :
          \E k \in DOMAIN SIMPLE_MODIFIERS :
              SIMPLE_MODIFIERS[k].name = modifiers[i].name

\* the entity of the sequence es that conn names as its source or
\* destination by id, as a set of at most one element
Named(es, id) == { es[i] : i \in { j \in DOMAIN es : es[j].id = id } }

\* C25: for a connection whose source and destination exist, the start
\* point is the right-centre edge of the source spawner or modifier, and the
\* end point is the left-centre edge of the destination modifier or the
\* centre of the sell zone; the points a tick stores are these.
C25_EndpointsOnEdges ==
    \A c \in DOMAIN connections :
        LET conn == connections[c]
            points == calculateConnectionPoints(conn, spawners, modifiers)
            sources == IF conn.fromType = "spawner"
                       THEN Named(spawners, conn.fromId)
                       ELSE Named(modifiers, conn.fromId)
            targets == Named(modifiers, conn.toId)
        IN  (sources # {} /\ (conn.toType = "sell" \/ targets # {}))
            => /\ \A s \in sources :
                     points[1] = [x |-> s.x + s.width, y |-> s.y + (s.height \div 2)]
               /\ conn.toType = "sell"
                     => points[2] = [x |-> SELL_ZONE.x + (SELL_ZONE.width \div 2),
                                     y |-> SELL_ZONE.y + (SELL_ZONE.height \div 2)]
               /\ conn.toType # "sell"
                     => \A m \in targets :
                           points[2] = [x |-> m.x, y |-> m.y + (m.height \div 2)]
               /\ conn.points # << >> => conn.points = points

C25_PlacedBlocksRouted ==
    \E c \in DOMAIN connections :
        /\ connections[c].fromId = << "spawner", 3 >>
        /\ connections[c].toId = << "modifier", 2 >>
        /\ connections[c].points = << [x |-> 160, y |-> 470], [x |-> 350, y |-> 460] >>


\* C26: a connection whose source, or whose destination modifier, does not
\* exist is routed as the degenerate pair with both endpoints at the origin.
C26_DanglingRoutedAtOrigin ==
    \A c \in DOMAIN connections :
        LET conn == connections[c]
            sources == IF conn.fromType = "spawner"
                       THEN Named(spawners, conn.fromId)
                       ELSE Named(modifiers, conn.fromId)
            targets == Named(modifiers, conn.toId)
        IN  (sources = {} \/ (conn.toType # "sell" /\ targets = {}))
            => /\ calculateConnectionPoints(conn, spawners, modifiers)
                      = << Point(0, 0), Point(0, 0) >>
               /\ conn.points \in { << >>, << Point(0, 0), Point(0, 0) >> }


\* the step settles a pending call of the resolver
SettleStep ==
    /\ Len(pending') < Len(pending)
    /\ connections' = connections
    /\ frameDue' = frameDue

\* the step mounts the hook anew
MountStep == frameDue' = frameDue /\ connections' # connections

\* C27: a failed write of the discovery cache is swallowed: the resolved
\* record is in memory after the settlement, the cycle's output item is made
\* as after a successful write, and while the session lasts the record stays
\* in memory, where a later cycle finds it without asking the resolver again;
\* a failed read of the store when the hook is mounted leaves the cache empty.
C27_StoreFailuresSwallowed ==
    [][ /\ SettleStep
           => \E i \in DOMAIN pending :
                 LET p == pending[i]
                 IN  /\ pending' = RemoveAt(pending, i)
                     /\ p.cacheKey \in DOMAIN discoveredCombos'
                     /\ persisted' # saveDiscoveredCombos(discoveredCombos')
                           => /\ persisted' = persisted
                              /\ (p.outputConnection # << >> /\ ~p.stale)
                                    => /\ Len(items') = Len(items) + 1
                                       /\ items'[Len(items')].name
                                             = discoveredCombos'[p.cacheKey].name
                                       /\ items'[Len(items')].connectionId
                                             = p.outputConnection[1].id
        /\ (SettleStep \/ frameDue' # frameDue)
           => DOMAIN discoveredCombos \subseteq DOMAIN discoveredCombos'
        /\ TickRan
           => /\ \A k \in DOMAIN discoveredCombos :
                    /\ CallsFor(extCalls', k) = CallsFor(extCalls, k)
                    /\ \A r \in (DOMAIN pending') \ (DOMAIN pending) :
                          pending'[r].cacheKey # k
              /\ (discoveredCombos # << >> /\ \E m \in DOMAIN modifiers : Processed(m))
                    => \E n \in DOMAIN items', k \in DOMAIN discoveredCombos :
                          /\ NewInStep(items'[n])
                          /\ items'[n].connectionId = heatToSell.id
                          /\ items'[n].name = discoveredCombos[k].name
        /\ MountStep
           => /\ LoadOrEmpty(persisted, TRUE) = << >>
              /\ discoveredCombos' \in { LoadOrEmpty(persisted, TRUE),
                                         LoadOrEmpty(persisted, FALSE) }
      ]_vars

C27_UnsavedRecordServed ==
    \E k \in DOMAIN discoveredCombos :
        /\ k \notin DOMAIN persisted
        /\ CallsFor(extCalls, k) = 1
        /\ pending = << >>
        /\ Cardinality({ n \in DOMAIN items :
                            /\ items[n].connectionId = heatToSell.id
                            /\ items[n].name = discoveredCombos[k].name }) >= 2


\* C28: no step changes a field of an existing spawner other than lastSpawn
\* or a field of an existing connection other than points (fromId, fromType,
\* toId and toType are kept), and only a tick changes those two; no step
\* removes a spawner, a modifier or a connection, or changes what a modifier
\* is and where it stands.
C28_BlocksKept ==
    [][ /\ Len(spawners') >= Len(spawners)
        /\ Len(modifiers') >= Len(modifiers)
        /\ Len(connections') >= Len(connections)
        /\ \A i \in DOMAIN spawners :
              /\ [spawners'[i] EXCEPT !.lastSpawn = spawners[i].lastSpawn] = spawners[i]
              /\ ~TickRan => spawners'[i] = spawners[i]
        /\ \A i \in DOMAIN connections :
              /\ [connections'[i] EXCEPT !.points = connections[i].points] = connections[i]
              /\ ~TickRan => connections'[i] = connections[i]
        /\ \A i \in DOMAIN modifiers :
              /\ [modifiers'[i] EXCEPT !.inputs = modifiers[i].inputs,
                                       !.lastProcess = modifiers[i].lastProcess]
                    = modifiers[i]
              /\ ~TickRan => modifiers'[i] = modifiers[i]
      ]_vars

C28_TickOnPlacedBlocks ==
    /\ Len(spawners) = 3
    /\ Len(modifiers) = 2
    /\ Len(connections) = 3
    /\ connections[3].points # << >>
    /\ \E i \in DOMAIN spawners : spawners[i].lastSpawn > PlaceAt


\* C29: every run of gameLoop, by whichever path it returns, leaves the next
\* frame requested, so that at every moment a frame is requested or running;
\* and as long as the requested frames are run, a further tick becomes
\* possible again and again until the end of the run, whatever the resolver
\* answered, whether or not the store could be written, and with a
\* connection that leads to a missing modifier.
C29_LoopKeepsRunning ==
    /\ [][frameDue /\ ~frameDue' => animationRef']_vars
    /\ [](frameDue \/ animationRef)
    /\ FramesKeepRunning
          => /\ []<>(clock + Step > LoopTime \/ ENABLED LoopTick)
             /\ <>(clock + Step > LoopTime)

C29_RanThroughEveryPath ==
    /\ clock + Step > LoopTime
    /\ ~frameDue
    /\ animationRef
    /\ oddSteps = 1
    /\ \E c \in DOMAIN connections : connections[c].toId = NoModifier
    /\ \E n \in DOMAIN items :
          /\ items[n].name = "Fire"
          /\ NewProgress(items[n].progress, Step, 385) = ProgressScale
    /\ \E k \in DOMAIN discoveredCombos :
          k \notin DOMAIN persisted /\ CallsFor(extCalls, k) >= 1


\* C30: a step in which a modifier starts a processing cycle is a tick at a
\* time at least processInterval after the modifier's lastProcess, consumes
\* at least one item (one that was on a connection into the modifier, or one
\* spawned and carried there by the same tick), and sets lastProcess to the
\* time of the tick; so two cycles of one modifier are at least
\* processInterval apart.
C30_CyclesSpaced ==
    [][ \A m \in DOMAIN modifiers :
           Processed(m)
           => /\ TickRan
              /\ clock - modifiers[m].lastProcess >= modifiers[m].processInterval
              /\ modifiers'[m].lastProcess = clock
              /\ modifiers'[m].lastProcess - modifiers[m].lastProcess
                    >= modifiers'[m].processInterval
              /\ \/ \E i \in DOMAIN items :
                       /\ \A j \in DOMAIN items' : items'[j].id # items[i].id
                       /\ ConnectionOf(connections, items[i]) # 0
                       /\ connections[ConnectionOf(connections, items[i])].toId
                             = modifiers[m].id
                 \/ \E n \in nextId.item .. (nextId'.item - 1) :
                       \A j \in DOMAIN items' : items'[j].id # ItemId(n)
      ]_vars

C30_InputsHeldBack ==
    \E m \in DOMAIN modifiers :
        /\ modifiers[m].inputs # << >>
        /\ modifiers[m].lastProcess > 0
        /\ ~frameDue
        /\ clock - modifiers[m].lastProcess < modifiers[m].processInterval


\* the modifier has no connection leaving it
NoOutlet(m) == OutputConnection(connections, modifiers[m].id, "modifier") = 0

\* C31: a processing cycle of a modifier with no outbound connection makes
\* no output item, yet consumes the pending inputs (they leave the item
\* collection, the pending set is emptied, lastProcess is the time of the
\* tick); the call it started carries no output connection, and its
\* settlement stores the record without adding an item.
C31_CycleWithoutOutlet ==
    [][ /\ \A m \in DOMAIN modifiers :
              (Processed(m) /\ NoOutlet(m))
              => /\ modifiers'[m].inputs = << >>
                 /\ modifiers'[m].lastProcess = clock
                 /\ \A k \in DOMAIN modifiers[m].inputs, j \in DOMAIN items' :
                       items'[j].id # modifiers[m].inputs[k]
                 /\ \A j \in DOMAIN items' :
                       NewInStep(items'[j])
                       => LET ci == ConnectionOf(connections', items'[j])
                          IN  ci # 0 => connections'[ci].fromId # modifiers[m].id
                 /\ \A r \in DOMAIN pending' :
                       (r > Len(pending) /\ pending'[r].modifierId = modifiers[m].id)
                       => pending'[r].outputConnection = << >>
                 /\ discoveredCombos = << >>
                       => \E r \in DOMAIN pending' :
                             /\ r > Len(pending)
                             /\ pending'[r].modifierId = modifiers[m].id
        /\ SettleStep
           => \E i \in DOMAIN pending :
                 /\ pending' = RemoveAt(pending, i)
                 /\ pending[i].cacheKey \in DOMAIN discoveredCombos'
                 /\ pending[i].outputConnection = << >> => items' = items
      ]_vars

C31_RecordWithoutOutput ==
    \E m \in DOMAIN modifiers :
        /\ NoOutlet(m)
        /\ modifiers[m].lastProcess > PlaceAt
        /\ modifiers[m].inputs = << >>
        /\ pending = << >>
        /\ getCachedCombo(<< "Fire" >>, modifiers[m].name) \in DOMAIN discoveredCombos
        /\ \A j \in DOMAIN items : items[j].name \in { "Fire", "Water" }


\* the items of the collection that left modifier m in the step
MadeInStep(m) ==
    { j \in DOMAIN items' :
         /\ NewInStep(items'[j])
         /\ LET ci == ConnectionOf(connections', items'[j])
            IN  ci # 0 /\ connections'[ci].fromId = modifiers[m].id }

\* the calls the step started for modifier m
StartedInStep(m) ==
    { r \in DOMAIN pending' :
         r > Len(pending) /\ pending'[r].modifierId = modifiers[m].id }

\* C32: a processing cycle of a modifier with an outbound connection either
\* finds its key in discoveredCombos, and then the tick issues no external
\* call, starts no pending call, and ends with the output item, made from a
\* stored record, in the item collection at progress 0; or it misses, and
\* then the tick ends without an output item and with one pending call whose
\* key is not in discoveredCombos.
C32_HitDeliversInTick ==
    [][ \A m \in DOMAIN modifiers :
           (Processed(m) /\ ~NoOutlet(m))
           => \/ /\ StartedInStep(m) = {}
                 /\ extCalls' = extCalls
                 /\ Cardinality(MadeInStep(m)) = 1
                 /\ \A j \in MadeInStep(m) :
                       /\ items'[j].progress = 0
                       /\ \E k \in DOMAIN discoveredCombos :
                             /\ items'[j].name = discoveredCombos[k].name
                             /\ items'[j].cashPerItem = discoveredCombos[k].cashPerItem
              \/ /\ MadeInStep(m) = {}
                 /\ Cardinality(StartedInStep(m)) = 1
                 /\ \A r \in StartedInStep(m) :
                       pending'[r].cacheKey \notin DOMAIN discoveredCombos
      ]_vars

C32_CachedOutputAfterTick ==
    \E k \in DOMAIN discoveredCombos :
        /\ CallsFor(extCalls, k) = 1
        /\ pending = << >>
        /\ ~frameDue
        /\ modifiers[1].lastProcess = clock
        /\ \E j \in DOMAIN items :
              /\ items[j].connectionId = heatToSell.id
              /\ items[j].progress = 0
        /\ Cardinality({ j \in DOMAIN items : items[j].connectionId = heatToSell.id })
              + Cardinality(sold) >= 2


\* the connection's two endpoints coincide
ZeroLength(conn) == Len(conn.points) >= 2 /\ conn.points[1] = conn.points[2]

\* C33: an item put on a connection whose two endpoints coincide arrives in
\* the first tick that moves it: after every tick no item is left on such a
\* connection into the sell zone (an item spawned onto it was credited by
\* the tick that spawned it), an item on such a connection into a modifier
\* is in the modifier's pending inputs, and every stored progress is within
\* [0, 1].
C33_ZeroLengthArrivesAtOnce ==
    [][ TickRan
        => /\ \A j \in DOMAIN items' :
                 /\ 0 <= items'[j].progress /\ items'[j].progress <= ProgressScale
                 /\ LET ci == ConnectionOf(connections', items'[j])
                    IN  (ci # 0 /\ ZeroLength(connections'[ci]))
                        => /\ connections'[ci].toType # "sell"
                           /\ \A m \in DOMAIN modifiers' :
                                 modifiers'[m].id = connections'[ci].toId
                                 => Includes(modifiers'[m].inputs, items'[j].id)
           /\ \A s \in DOMAIN spawners :
                 LET ci == OutputConnection(connections', spawners[s].id, "spawner")
                 IN  (/\ spawners'[s].lastSpawn # spawners[s].lastSpawn
                      /\ ci # 0
                      /\ ZeroLength(connections'[ci])
                      /\ connections'[ci].toType = "sell")
                     => \E r \in sold' \ sold :
                           /\ r.id[2] >= nextId.item
                           /\ totalCash' >= totalCash + r.cash
      ]_vars

C33_SoldWhereSpawned ==
    /\ clock = AbutAt + SPAWN_INTERVAL
    /\ sold # {}
    /\ totalCash > 0
    /\ \E m \in DOMAIN modifiers :
          /\ modifiers[m].name = "Cool"
          /\ modifiers[m].lastProcess = AbutAt + PROCESS_INTERVAL


\* C34: no item id occurs twice in a modifier's pending inputs, although an
\* arrived item stays in the item collection and is found arrived again by
\* every later tick until the modifier processes.
C34_InputsWithoutRepeats ==
    \A m \in DOMAIN modifiers :
        \A a, b \in DOMAIN modifiers[m].inputs :
            modifiers[m].inputs[a] = modifiers[m].inputs[b] => a = b


C34_WaitedOverATick ==
    \E m \in DOMAIN modifiers, j \in DOMAIN items :
        /\ ~frameDue
        /\ lastUpdateTime = clock
        /\ modifiers[m].inputs = << items[j].id >>
        /\ modifiers[m].lastProcess > 0
        /\ clock - modifiers[m].lastProcess >= 2 * HalfStep
        /\ clock - modifiers[m].lastProcess < modifiers[m].processInterval


\* C35: the drag of a connection.  With no drag in progress a step can only
\* start one, at its start point, and adds no connection (so an update or a
\* completion without a drag changes nothing); with a drag in progress a
\* step changes at most its current point, or ends it; a connection is added
\* only by a step that ends a drag, which adds exactly one, leaving the
\* drag's source for the chosen destination; a step that ends a drag
\* without adding a connection changes nothing else (cancel).
C35_DragStateMachine ==
    [][ /\ draggedConnection = << >>
           => /\ Len(connections') = Len(connections)
              /\ draggedConnection' # << >>
                    => /\ draggedConnection'[1].currentX = draggedConnection'[1].startX
                       /\ draggedConnection'[1].currentY = draggedConnection'[1].startY
                       /\ connections' = connections
        /\ (draggedConnection # << >> /\ draggedConnection' # << >>)
           => /\ connections' = connections
              /\ [draggedConnection'[1] EXCEPT
                     !.currentX = draggedConnection[1].currentX,
                     !.currentY = draggedConnection[1].currentY] = draggedConnection[1]
        /\ (draggedConnection # << >> /\ draggedConnection' = << >>)
           => \/ connections' = connections
              \/ /\ Len(connections') = Len(connections) + 1
                 /\ SubSeq(connections', 1, Len(connections)) = connections
                 /\ connections'[Len(connections')].fromId = draggedConnection[1].fromId
                 /\ connections'[Len(connections')].fromType = draggedConnection[1].fromType
                 /\ connections'[Len(connections')].toType \in { "modifier", "sell" }
                 /\ connections'[Len(connections')].points = << >>
        /\ draggedConnection' # draggedConnection
           => /\ spawners' = spawners /\ modifiers' = modifiers /\ items' = items
              /\ totalCash' = totalCash /\ clock' = clock
      ]_vars

C35_DragCompleted ==
    /\ draggedConnection = << >>
    /\ Len(connections) = 3
    /\ connections[3].fromId = fireSpawner.id
    /\ connections[3].toId = SellId
    /\ connections[3].points = << >>


\* the items travelling on connection c
TravellingOn(c) == { j \in DOMAIN items : items[j].connectionId = connections[c].id }

\* C36: the movement applied to an item is that of the wall-clock time
\* elapsed: the only item on a spawner's connection has covered no more of
\* it than CONNECTION_SPEED allows in the time since the spawner emitted it.
C36_MovedForTimeElapsed ==
    \A s \in DOMAIN spawners, c \in DOMAIN connections :
        (/\ ~frameDue
         /\ connections[c].fromId = spawners[s].id
         /\ Len(connections[c].points) >= 2
         /\ Cardinality(TravellingOn(c)) = 1)
        => \A j \in TravellingOn(c) :
              items[j].progress
                 <= NewProgress(0, clock - lastEmit[spawners[s].id].at,
                                Distance(connections[c]))


\* the first connection leaving spawner s, 0 when there is none
Outlet(s) == OutputConnection(connections, spawners[s].id, "spawner")

\* the step put a new item on the first connection leaving spawner s
Emitted(s) ==
    /\ Outlet(s) # 0
    /\ \E j \in DOMAIN items' :
          /\ NewInStep(items'[j])
          /\ items'[j].connectionId = connections[Outlet(s)].id
          /\ items'[j].name = spawners[s].itemType

\* C37: a spawner's lastSpawn changes only in a tick that emits an item from
\* it, and then becomes the time of the tick; a spawner without an outbound
\* connection, or of a type the catalog does not have, keeps its lastSpawn;
\* and a tick that finds a connected spawner of a known type with its
\* interval elapsed emits, however long ago the interval elapsed: the first
\* tick after a late connection emits at once.
C37_IntervalKeptWhileIdle ==
    [][ \A s \in DOMAIN spawners :
           /\ spawners'[s].lastSpawn # spawners[s].lastSpawn
                 => TickRan /\ Emitted(s) /\ spawners'[s].lastSpawn = clock
           /\ (Outlet(s) = 0 \/ IngredientIndex(spawners[s].itemType) = 0)
                 => spawners'[s].lastSpawn = spawners[s].lastSpawn /\ ~Emitted(s)
           /\ (/\ TickRan
               /\ Outlet(s) # 0
               /\ IngredientIndex(spawners[s].itemType) # 0
               /\ clock - spawners[s].lastSpawn >= spawners[s].spawnInterval)
                 => Emitted(s) /\ spawners'[s].lastSpawn = clock
      ]_vars

C37_EmittedOnceWired ==
    /\ clock = LateAt + Step
    /\ ~frameDue
    /\ Outlet(2) = 3
    /\ spawners[2].lastSpawn = clock
    /\ \E j \in DOMAIN items : items[j].name = "Fire" /\ items[j].connectionId = connections[3].id
    /\ \E s \in DOMAIN spawners :
          /\ spawners[s].itemType = "Unobtainium"
          /\ Outlet(s) # 0
          /\ spawners[s].lastSpawn = LateAt


\* connection b leaves the same source as connection a
SameSource(a, b) ==
    /\ connections[a].fromId = connections[b].fromId
    /\ connections[a].fromType = connections[b].fromType

\* C38: every item is on the first connection, in the order the connections
\* were registered, that leaves its source: no item is ever on a later
\* connection from the same spawner or modifier.
C38_FirstConnectionTakesAll ==
    \A j \in DOMAIN items :
        LET c == ConnectionOf(connections, items[j])
        IN  c # 0 => \A b \in DOMAIN connections : SameSource(c, b) => c <= b

C38_ForkedSourcesEmitted ==
    /\ \E j \in DOMAIN items, b \in DOMAIN connections :
          LET c == ConnectionOf(connections, items[j])
          IN  c # 0 /\ b > c /\ SameSource(c, b) /\ connections[c].fromType = "spawner"
    /\ \E j \in DOMAIN items, b \in DOMAIN connections :
          LET c == ConnectionOf(connections, items[j])
          IN  c # 0 /\ b > c /\ SameSource(c, b) /\ connections[c].fromType = "modifier"


\* the lists a and b hold the same names the same number of times
SameMultiset(a, b) ==
    /\ Len(a) = Len(b)
    /\ \A n \in KeyNames :
          Cardinality({ i \in DOMAIN a : a[i] = n })
            = Cardinality({ i \in DOMAIN b : b[i] = n })

\* C39: the cache key is injective: a request whose names (as a multiset) or
\* whose modifier differ from those of the call made never has the key of
\* that call, under either of the two key functions.
C39_KeyInjective ==
    \A i \in DOMAIN keyCall :
        \A other \in KeyInputs, modifier \in KeyModifiers :
            (\/ getCachedCombo(other, modifier) = keyCall[i].key
             \/ createCacheKey(other, modifier) = keyCall[i].aiKey)
              => /\ SameMultiset(other, keyCall[i].ingredients)
                 /\ modifier = keyCall[i].modifier


\* the item at index j arrives at the end of its connection in this tick
ReachesEnd(j) ==
    LET ci == ConnectionOf(connections', items[j])
    IN  /\ ci # 0
        /\ Len(connections'[ci].points) >= 2
        /\ NewProgress(items[j].progress, clock - lastFrameTime,
                       Distance(connections'[ci])) >= ProgressScale

\* C40: an item that reaches the end of its connection in a tick is, after
\* the tick, out of the item collection (sold, or consumed by a processing
\* cycle of that tick) or held in the inputs of a modifier, whose next cycle
\* consumes it: no item is left at the end of a connection with nothing to
\* take it out of the collection.
C40_ArrivedItemsLeave ==
    [][ TickRan
        => \A j \in DOMAIN items :
              ReachesEnd(j)
              => \/ \A k \in DOMAIN items' : items'[k].id # items[j].id
                 \/ \E m \in DOMAIN modifiers' :
                       Includes(modifiers'[m].inputs, items[j].id)
      ]_vars

=============================================================================
